---- MODULE Spec2Model ----
(***************************************************************************)
(* context6: a SQLite-backed catalog of program entities with tiered       *)
(* symbol lookup, full-text search and summary bookkeeping.                *)
(*                                                                         *)
(* Text that the program inspects character by character (fqnames,         *)
(* queries, the full-text columns) is a sequence of one-character strings. *)
(* Opaque text (file, code_hash, coverage, backend) is a plain string.     *)
(***************************************************************************)
EXTENDS Integers, Sequences, FiniteSets, TLC

(***************************************************************************)
(* Bounds of the model.                                                    *)
(***************************************************************************)
MaxIdxLen == 2      \* entities per ingested index
MaxIngests == 2     \* ingest calls per behaviour
MaxWrites == 1      \* summary / summary-error writes per behaviour
MaxLimit == 2       \* largest `limit` argument of a retrieval call
MaxClock == 1       \* seconds the clock advances during a behaviour
MaxExtra == 1       \* matching entities beyond one candidate pool

(***************************************************************************)
(* Characters and strings                                                  *)
(***************************************************************************)
NULL == "NULL"
NullText == <<NULL>>          \* SQL NULL in a character-level text column
NullInt == 0 - 1                \* SQL NULL in an integer column

\* Code points of the characters the model uses (Python / SQLite BINARY order).
Ord(c) ==
  CASE c = " " -> 32 [] c = "\"" -> 34 [] c = "%" -> 37 [] c = "(" -> 40
    [] c = ")" -> 41 [] c = "*" -> 42 [] c = "." -> 46 [] c = "F" -> 70 [] c = "_" -> 95
    [] c = "a" -> 97 [] c = "d" -> 100 [] c = "f" -> 102 [] c = "i" -> 105
    [] c = "m" -> 109 [] c = "n" -> 110 [] c = "o" -> 111 [] c = "p" -> 112
    [] c = "r" -> 114 [] c = "t" -> 116 [] c = "x" -> 120 [] c = "z" -> 122
    [] c = "," -> 44 [] c = "b" -> 98 [] c = "c" -> 99
    [] c = "e" -> 101 [] c = "s" -> 115
    [] OTHER -> 0

IsUpper(c) == Ord(c) >= 65 /\ Ord(c) <= 90
IsLowerLetter(c) == Ord(c) >= 97 /\ Ord(c) <= 122
IsDigit(c) == Ord(c) >= 48 /\ Ord(c) <= 57
IsAlnum(c) == IsUpper(c) \/ IsLowerLetter(c) \/ IsDigit(c)
IsWordChar(c) == IsAlnum(c) \/ c = "_"
IsSpace(c) == c = " "

\* str.lower() on one character.
Lower(c) == IF c = "F" THEN "f" ELSE c

LowerStr(s) == [i \in 1..Len(s) |-> Lower(s[i])]

\* Lexicographic comparison of two strings by code point.
RECURSIVE StrLess(_, _)
StrLess(s, t) ==
  IF t = <<>> THEN FALSE
  ELSE IF s = <<>> THEN TRUE
  ELSE IF Head(s) = Head(t) THEN StrLess(Tail(s), Tail(t))
  ELSE Ord(Head(s)) < Ord(Head(t))

StartsWith(s, p) == Len(p) <= Len(s) /\ SubSeq(s, 1, Len(p)) = p
EndsWith(s, p) == Len(p) <= Len(s) /\ SubSeq(s, Len(s) - Len(p) + 1, Len(s)) = p
\* Python `sub in s`.
Contains(s, sub) == \E i \in 0..(Len(s) - Len(sub)) : SubSeq(s, i + 1, i + Len(sub)) = sub

\* str.strip(): leading and trailing whitespace removed.
RECURSIVE LStrip(_)
LStrip(s) == IF s # <<>> /\ IsSpace(Head(s)) THEN LStrip(Tail(s)) ELSE s
RECURSIVE RStrip(_)
RStrip(s) == IF s # <<>> /\ IsSpace(s[Len(s)]) THEN RStrip(SubSeq(s, 1, Len(s) - 1)) ELSE s
Strip(s) == RStrip(LStrip(s))

\* s.rsplit(".", 1)[-1]: the text after the last dot (all of s without a dot).
RECURSIVE LastSegment(_)
LastSegment(s) ==
  IF \A i \in 1..Len(s) : s[i] # "." THEN s
  ELSE LastSegment(Tail(s))

\* The first k elements of a sequence; a negative k is Python's s[:k].
Take(s, k) ==
  IF k >= 0 THEN SubSeq(s, 1, IF k < Len(s) THEN k ELSE Len(s))
  ELSE SubSeq(s, 1, IF Len(s) + k > 0 THEN Len(s) + k ELSE 0)

\* SQLite LIKE: % matches any run of characters, _ any single character,
\* letters compare case-insensitively (ASCII), no ESCAPE clause.
RECURSIVE Like(_, _)
Like(pat, s) ==
  IF pat = <<>> THEN s = <<>>
  ELSE IF Head(pat) = "%"
    THEN \E i \in 0..Len(s) : Like(Tail(pat), SubSeq(s, i + 1, Len(s)))
  ELSE IF s = <<>> THEN FALSE
  ELSE IF Head(pat) = "_" THEN Like(Tail(pat), Tail(s))
  ELSE Lower(Head(pat)) = Lower(Head(s)) /\ Like(Tail(pat), Tail(s))

(***************************************************************************)
(* Inputs: the entities and relations an index may carry.  An index entry  *)
(* is the dict the scanner emits; a None value is NULL / NullText.         *)
(***************************************************************************)
Kinds == {"class", "function", "method", "module"}

fn == <<"f", "n">>
pfn == <<"p", ".", "f", "n">>
pfnx == <<"p", ".", "f", "n", "x">>
pmod == <<"p">>

E1 == [kind |-> "function", fqname |-> fn, file |-> "a.py", start_line |-> 1, end_line |-> 2,
       signature |-> <<"f", "n", "(", "x", ")">>, docstring |-> <<>>,
       summary |-> <<"a", "d">>, code_hash |-> "h1"]
E2 == [kind |-> "class", fqname |-> pfn, file |-> "a.py", start_line |-> 3, end_line |-> 4,
       signature |-> <<"f", "n">>, docstring |-> <<>>,
       summary |-> NullText, code_hash |-> "h2"]
E3 == [kind |-> "method", fqname |-> pfnx, file |-> "b.py", start_line |-> 1, end_line |-> 1,
       signature |-> <<"f", "n", "x">>, docstring |-> <<>>,
       summary |-> <<"f", "n">>, code_hash |-> "h3"]
E4 == [kind |-> "module", fqname |-> pmod, file |-> "b.py", start_line |-> 1, end_line |-> 4,
       signature |-> <<>>, docstring |-> <<"f", "n", " ", "a", "d">>,
       summary |-> <<>>, code_hash |-> "h4"]
\* The key of E1 again, every other field different.
E5 == [kind |-> "function", fqname |-> fn, file |-> "b.py", start_line |-> 5, end_line |-> 6,
       signature |-> <<"f", "n">>, docstring |-> NullText,
       summary |-> <<"z", "z">>, code_hash |-> "h5"]
\* An entry whose file is None: the insert violates NOT NULL.
E6 == [kind |-> "class", fqname |-> pfn, file |-> NULL, start_line |-> 3, end_line |-> 4,
       signature |-> <<"f", "n">>, docstring |-> <<>>,
       summary |-> <<>>, code_hash |-> "h2"]

EntityPool == {E1, E2, E3, E4, E5, E6}

R1 == [src |-> pmod, rel |-> "defines", dst |-> pfn]
R2 == [src |-> pmod, rel |-> "imports", dst |-> fn]
\* A relation whose dst is None: the insert violates NOT NULL.
R3 == [src |-> pmod, rel |-> "imports", dst |-> NullText]
RelationLists == {<<>>, <<R1>>, <<R1, R1>>, <<R2, R1>>}

\* The indexes a caller may ingest: a first scan, a scan that lost fn and found
\* a method, a rescan that changed fn and found a module, one index naming a key
\* twice, two that fail part-way (at an entity, at a relation), an empty one, and
\* two larger ones.
IndexPool ==
  { [entities |-> <<E1, E2>>, relations |-> <<R1>>],
    [entities |-> <<E2, E3>>, relations |-> <<R2, R1>>],
    [entities |-> <<E4, E5>>, relations |-> <<>>],
    [entities |-> <<E1, E5>>, relations |-> <<R1, R1>>],
    [entities |-> <<E3, E6>>, relations |-> <<R1>>],
    [entities |-> <<E3>>, relations |-> <<R2, R3>>],
    [entities |-> <<>>, relations |-> <<>>],
    [entities |-> <<E2, E5, E3>>, relations |-> <<R2>>],
    [entities |-> <<E1, E2, E3, E4>>, relations |-> <<R1, R2>>] }

Indexes == {idx \in IndexPool : Len(idx.entities) <= MaxIdxLen}

KeyOf(e) == <<e.kind, e.fqname>>
IndexKeys(idx) == {KeyOf(idx.entities[i]) : i \in 1..Len(idx.entities)}

(***************************************************************************)
(* State                                                                   *)
(***************************************************************************)
VARIABLES
  entities,    \* committed rows of table entities, in rowid order
  relations,   \* committed rows of table relations, in rowid order
  fts,         \* committed content of the entities_fts index, one document per rowid
  now,         \* the value datetime('now') returns
  txn,         \* the open ingest transaction and its uncommitted writes
  last,        \* the last completed write operation with the state it started from
  out,         \* the result of the retrieval call in progress
  ingested,    \* keys of every index ingested so far
  nIngest,
  nWrite

vars == <<entities, relations, fts, now, txn, last, out, ingested, nIngest, nWrite>>

NoTxn == [active |-> FALSE]
NoOut == [op |-> "none"]
NoLast == [op |-> "none"]

(***************************************************************************)
(* Store: schema and ingest_index                                          *)
(***************************************************************************)
\* COALESCE(?, '')
Coalesce(v) == IF v = NullText THEN <<>> ELSE v

\* The NOT NULL columns of table entities that an index entry supplies.
NotNullOk(e) ==
  /\ e.kind # NULL /\ e.fqname # NullText /\ e.file # NULL
  /\ e.start_line # NullInt /\ e.end_line # NullInt
  /\ e.signature # NullText /\ e.code_hash # NULL

\* The row INSERT creates: unnamed columns take their DEFAULT.
NewRow(id, e, t) ==
  [id |-> id, kind |-> e.kind, fqname |-> e.fqname, file |-> e.file,
   start_line |-> e.start_line, end_line |-> e.end_line,
   signature |-> e.signature, docstring |-> e.docstring,
   summary |-> Coalesce(e.summary),
   summary_hash |-> NULL, code_truncated |-> 0, summary_prompt_tokens |-> NullInt,
   summary_coverage |-> NULL, summary_backend |-> NULL, summary_error |-> NullText,
   code_hash |-> e.code_hash, updated_at |-> t]

\* Faulty variant: the conflict update also takes the entry's summary.
UpdatedRowTakingSummary(row, e, t) ==
  [row EXCEPT !.file = e.file, !.start_line = e.start_line, !.end_line = e.end_line,
              !.signature = e.signature, !.docstring = e.docstring,
              !.summary = Coalesce(e.summary),
              !.code_hash = e.code_hash, !.updated_at = t]

\* ON CONFLICT(kind, fqname) DO UPDATE SET ...
UpdatedRow(row, e, t) ==
  [row EXCEPT !.file = e.file, !.start_line = e.start_line, !.end_line = e.end_line,
              !.signature = e.signature, !.docstring = e.docstring,
              !.code_hash = e.code_hash, !.updated_at = t]

\* UNIQUE(kind, fqname): the rows an insert of e conflicts with.
Conflicts(ents, e) == {i \in 1..Len(ents) : KeyOf(ents[i]) = KeyOf(e)}

\* Faulty variant: a plain INSERT on a table without the UNIQUE constraint.
UpsertAlwaysInserting(ents, e, t) == Append(ents, NewRow(Len(ents) + 1, e, t))

\* One INSERT ... ON CONFLICT DO UPDATE statement.
Upsert(ents, e, t) ==
  IF Conflicts(ents, e) = {}
    THEN Append(ents, NewRow(Len(ents) + 1, e, t))
    ELSE [i \in 1..Len(ents) |->
            IF i \in Conflicts(ents, e) THEN UpdatedRow(ents[i], e, t) ELSE ents[i]]

\* INSERT INTO entities_fts(entities_fts) VALUES('rebuild')
FtsDoc(row) ==
  [rowid |-> row.id, fqname |-> row.fqname, signature |-> row.signature,
   docstring |-> row.docstring, summary |-> row.summary]
RebuildFts(ents) == [i \in 1..Len(ents) |-> FtsDoc(ents[i])]

\* The loop over idx["entities"]: stops at the first statement that raises.
RECURSIVE UpsertAll(_, _, _)
UpsertAll(ents, es, t) ==
  IF es = <<>> THEN [ok |-> TRUE, entities |-> ents]
  ELSE IF ~NotNullOk(Head(es)) THEN [ok |-> FALSE, entities |-> ents]
  ELSE UpsertAll(Upsert(ents, Head(es), t), Tail(es), t)

\* The NOT NULL columns of table relations.
RelationsOk(rels) ==
  \A i \in 1..Len(rels) :
    rels[i].src # NullText /\ rels[i].rel # NULL /\ rels[i].dst # NullText

\* Faulty variant: the DELETE is missing.
ReplaceRelationsAppending(rels, idx) == rels \o idx.relations

\* DELETE FROM relations; INSERT INTO relations ... (executemany)
ReplaceRelations(rels, idx) == idx.relations

\* The database a completed ingest commits, or the unchanged one after rollback.
IngestResult(ents, rels, docs, idx, t) ==
  LET up == UpsertAll(ents, idx.entities, t)
  IN IF RelationsOk(idx.relations) /\ up.ok
       THEN [ok |-> TRUE, entities |-> up.entities,
             relations |-> ReplaceRelations(rels, idx),
             fts |-> RebuildFts(up.entities)]
       ELSE [ok |-> FALSE, entities |-> ents, relations |-> rels, fts |-> docs]

\* datetime('now') of a later statement: the same second or a later one.
Times == {now} \cup (IF now < MaxClock THEN {now + 1} ELSE {})

LastIngest(idx, r) ==
  [op |-> "ingest", ok |-> r.ok, idx |-> idx,
   preEntities |-> entities, preRelations |-> relations, preFts |-> fts,
   again |-> last.op = "ingest" /\ last.ok /\ r.ok /\ last.idx = idx]

\* ingest_index(db, idx), start to commit.
Ingest ==
  /\ ~txn.active /\ out = NoOut /\ nIngest < MaxIngests
  /\ \E idx \in Indexes, t \in Times :
       LET r == IngestResult(entities, relations, fts, idx, t)
       IN /\ entities' = r.entities
          /\ relations' = r.relations
          /\ fts' = r.fts
          /\ now' = t
          /\ last' = LastIngest(idx, r)
          /\ ingested' = IF r.ok THEN ingested \cup IndexKeys(idx) ELSE ingested
  /\ nIngest' = nIngest + 1
  /\ UNCHANGED <<txn, out, nWrite>>

(***************************************************************************)
(* Summary writes (core/summarize.py)                                      *)
(***************************************************************************)
MaxErrLen == 500

\* CHECK (summary_backend IN ('ollam', 'codex') OR summary_backend IS NULL)
BackendCheckOk(b) == b \in {"ollam", "codex"} \/ b = NULL

RowsWithId(ents, id) == {i \in 1..Len(ents) : ents[i].id = id}

\* Faulty variant: the rowcount of the UPDATE is not looked at.
WriteSummaryCurUnchecked(ents, id, summary, code_hash, trunc, tokens, coverage, backend, t) ==
  IF backend \notin {"ollama", "codex"}
    THEN [raised |-> "ValueError", entities |-> ents]
  ELSE IF RowsWithId(ents, id) # {} /\ ~BackendCheckOk(backend)
    THEN [raised |-> "IntegrityError", entities |-> ents]
  ELSE [raised |-> "none",
        entities |-> [i \in 1..Len(ents) |->
          IF ents[i].id = id
            THEN [ents[i] EXCEPT !.summary = summary, !.summary_hash = code_hash,
                                 !.code_truncated = IF trunc THEN 1 ELSE 0,
                                 !.summary_prompt_tokens = tokens,
                                 !.summary_coverage = coverage,
                                 !.summary_backend = backend,
                                 !.summary_error = NullText,
                                 !.updated_at = t]
            ELSE ents[i]]]

\* write_summary_cur: the exception it raises ("none" on return) and the rows
\* its connection then holds.
WriteSummaryCur(ents, id, summary, code_hash, trunc, tokens, coverage, backend, t) ==
  IF backend \notin {"ollama", "codex"}
    THEN [raised |-> "ValueError", entities |-> ents]
  ELSE IF RowsWithId(ents, id) # {} /\ ~BackendCheckOk(backend)
    THEN [raised |-> "IntegrityError", entities |-> ents]
  ELSE IF Cardinality(RowsWithId(ents, id)) # 1
    THEN [raised |-> "RuntimeError", entities |-> ents]
  ELSE [raised |-> "none",
        entities |-> [i \in 1..Len(ents) |->
          IF ents[i].id = id
            THEN [ents[i] EXCEPT !.summary = summary, !.summary_hash = code_hash,
                                 !.code_truncated = IF trunc THEN 1 ELSE 0,
                                 !.summary_prompt_tokens = tokens,
                                 !.summary_coverage = coverage,
                                 !.summary_backend = backend,
                                 !.summary_error = NullText,
                                 !.updated_at = t]
            ELSE ents[i]]]

\* Faulty variant: the message is stored whole.
WriteSummaryErrorCurUntruncated(ents, id, err, t) ==
  [i \in 1..Len(ents) |->
     IF ents[i].id = id
       THEN [ents[i] EXCEPT !.summary_error = err, !.updated_at = t]
       ELSE ents[i]]

\* write_summary_error_cur
WriteSummaryErrorCur(ents, id, err, t) ==
  [i \in 1..Len(ents) |->
     IF ents[i].id = id
       THEN [ents[i] EXCEPT !.summary_error = Take(err, MaxErrLen), !.updated_at = t]
       ELSE ents[i]]

Backends == {"ollama", "ollam", "codex"}
SummaryTexts == {<<"o", "k">>}
ErrorTexts == {<<"n", "o">>}

\* write_summary_cur and the caller's commit, as in summarize_one.
WriteSummary ==
  /\ ~txn.active /\ out = NoOut /\ nWrite < MaxWrites
  /\ \E id \in 1..(Len(entities) + 1), b \in Backends, text \in SummaryTexts, t \in Times :
       LET r == WriteSummaryCur(entities, id, text, "hs", TRUE, 7, "full", b, t)
       IN /\ entities' = r.entities
          /\ now' = t
          /\ last' = [op |-> "write_summary", id |-> id, raised |-> r.raised,
                      summary |-> text, backend |-> b, preEntities |-> entities]
  /\ nWrite' = nWrite + 1
  /\ UNCHANGED <<relations, fts, txn, out, ingested, nIngest>>

\* write_summary_error_cur and the caller's commit, as in run_summarize.
WriteSummaryError ==
  /\ ~txn.active /\ out = NoOut /\ nWrite < MaxWrites
  /\ \E id \in 1..(Len(entities) + 1), err \in ErrorTexts, t \in Times :
       /\ entities' = WriteSummaryErrorCur(entities, id, err, t)
       /\ now' = t
       /\ last' = [op |-> "write_summary_error", id |-> id, err |-> err,
                   preEntities |-> entities]
  /\ nWrite' = nWrite + 1
  /\ UNCHANGED <<relations, fts, txn, out, ingested, nIngest>>

(***************************************************************************)
(* Retrieval (core/retrieve.py, core/present.py)                           *)
(***************************************************************************)
NoneKinds == <<NULL>>          \* kinds=None
Range(f) == {f[i] : i \in DOMAIN f}

\* k.strip() is empty
IsBlank(k) == k \in {"", " "}

\* _normalize_kinds: blank entries dropped; None when nothing is left.
NormalizeKinds(kinds) ==
  IF kinds = NoneKinds THEN NoneKinds
  ELSE LET keep == SelectSeq(kinds, LAMBDA k : ~IsBlank(k))
       IN IF keep = <<>> THEN NoneKinds ELSE keep

\* Faulty variant: the kind clause is left out of the statement.
KindClauseDropped(kind, nk) == TRUE

\* The kind clause: " AND kind IN (...)" when kinds is non-empty, else nothing.
KindClause(kind, nk) == nk = NoneKinds \/ kind \in Range(nk)

\* Binary string order of the kind column.
KindOrd(k) ==
  CASE k = "class" -> 1 [] k = "function" -> 2 [] k = "method" -> 3
    [] k = "module" -> 4 [] OTHER -> 5

\* The elements of S as a sequence ascending under the strict order Less.
SortSet(S, Less(_, _)) ==
  [i \in 1..Cardinality(S) |->
     CHOOSE x \in S : Cardinality({y \in S : Less(y, x)}) = i - 1]

\* SQL LIMIT: a negative limit means no limit.
SqlLimit(rows, limit) == IF limit < 0 THEN rows ELSE Take(rows, limit)

\* The three SELECTs of lookup_symbol, each a set of (row, rank) pairs.
Tier0(ents, name, nk) ==
  {[row |-> ents[i], rank |-> 0] : i \in {j \in 1..Len(ents) :
      ents[j].fqname = name /\ KindClause(ents[j].kind, nk)}}
Tier1(ents, name, nk) ==
  {[row |-> ents[i], rank |-> 1] : i \in {j \in 1..Len(ents) :
      Like(<<"%", ".">> \o name, ents[j].fqname) /\ KindClause(ents[j].kind, nk)}}
Tier2(ents, name, nk) ==
  {[row |-> ents[i], rank |-> 2] : i \in {j \in 1..Len(ents) :
      Like(<<"%">> \o name \o <<"%">>, ents[j].fqname) /\ KindClause(ents[j].kind, nk)}}

\* ORDER BY rank, kind, fqname (rowid settles what the ORDER BY leaves open).
LookupLess(a, b) ==
  \/ a.rank < b.rank
  \/ a.rank = b.rank /\ KindOrd(a.row.kind) < KindOrd(b.row.kind)
  \/ a.rank = b.rank /\ a.row.kind = b.row.kind /\ StrLess(a.row.fqname, b.row.fqname)
  \/ a.rank = b.rank /\ a.row.kind = b.row.kind /\ a.row.fqname = b.row.fqname
       /\ a.row.id < b.row.id

\* UNION of the tiers: duplicates are removed among whole result rows, rank included.
LookupUnion(ents, name, nk) ==
  Tier0(ents, name, nk) \cup Tier1(ents, name, nk) \cup Tier2(ents, name, nk)

\* lookup_symbol(db, name, limit, kinds)["matches"]
lookup_symbol(ents, name, limit, kinds) ==
  SqlLimit(SortSet(LookupUnion(ents, name, NormalizeKinds(kinds)), LookupLess), limit)

\* The CASE e.kind expression of best_match_entity.
KindPreference(k) ==
  CASE k = "class" -> 0 [] k = "module" -> 1 [] k = "function" -> 2
    [] k = "method" -> 3 [] OTHER -> 9

\* SELECT id, MIN(rank) ... GROUP BY id over the UNION ALL of the tiers.
BestRanked(ents, name, nk) ==
  LET all == LookupUnion(ents, name, nk)
  IN {x \in all : \A y \in all : y.row.id = x.row.id => x.rank <= y.rank}

\* ORDER BY r.best_rank, CASE e.kind ..., e.fqname
BestLess(a, b) ==
  \/ a.rank < b.rank
  \/ a.rank = b.rank /\ KindPreference(a.row.kind) < KindPreference(b.row.kind)
  \/ a.rank = b.rank /\ KindPreference(a.row.kind) = KindPreference(b.row.kind)
       /\ StrLess(a.row.fqname, b.row.fqname)
  \/ a.rank = b.rank /\ KindPreference(a.row.kind) = KindPreference(b.row.kind)
       /\ a.row.fqname = b.row.fqname /\ a.row.id < b.row.id

\* best_match_entity(db, name, kinds): the rows fetched, at most one (LIMIT 1);
\* the function returns the first or None.
best_match_entity(ents, name, kinds) ==
  SqlLimit(SortSet(BestRanked(ents, name, NormalizeKinds(kinds)), BestLess), 1)

(***************************************************************************)
(* Full-text search                                                        *)
(***************************************************************************)
CandidateCap == 1000
CandidateFactor == 20
BoostExact == 1000
BoostTail == 600
BoostSubstring == 250

\* Faulty variant: no boost step for a match on the last dotted segment.
fqname_boost_without_tail(fqname, query) ==
  LET q == LowerStr(Strip(query))
      f == LowerStr(Strip(fqname))
  IN IF q = <<>> \/ f = <<>> THEN 0
     ELSE IF q = f THEN BoostExact
     ELSE IF Contains(f, q) THEN BoostSubstring
     ELSE 0

\* _fqname_boost(fqname, query)
fqname_boost(fqname, query) ==
  LET q == LowerStr(Strip(query))
      f == LowerStr(Strip(fqname))
  IN IF q = <<>> \/ f = <<>> THEN 0
     ELSE IF q = f THEN BoostExact
     ELSE IF q = LastSegment(f) THEN BoostTail
     ELSE IF Contains(f, q) THEN BoostSubstring
     ELSE 0

\* q.replace('"', '""')
RECURSIVE DoubleQuotes(_)
DoubleQuotes(q) ==
  IF q = <<>> THEN <<>>
  ELSE IF Head(q) = "\"" THEN <<"\"", "\"">> \o DoubleQuotes(Tail(q))
  ELSE <<Head(q)>> \o DoubleQuotes(Tail(q))

\* _fts_phrase(q)
fts_phrase(q) == <<"\"">> \o DoubleQuotes(q) \o <<"\"">>

\* _FQNAME_LIKE.fullmatch: ^[A-Za-z0-9_.]+$
IsFqnameChar(c) == IsWordChar(c) \/ c = "."
FqnameLike(q) == q # <<>> /\ \A i \in 1..Len(q) : IsFqnameChar(q[i])

AllIn(s, Ok(_)) == \A i \in 1..Len(s) : Ok(s[i])
IsStarWord(c) == IsWordChar(c) \/ c = "*"
kwImport == <<"i", "m", "p", "o", "r", "t">>
kwFrom == <<"f", "r", "o", "m">>

\* ^import\s+[\w.]+$
ImportShape(q) ==
  \E i \in (Len(kwImport) + 1)..(Len(q) - 1) :
    /\ SubSeq(q, 1, Len(kwImport)) = kwImport
    /\ AllIn(SubSeq(q, Len(kwImport) + 1, i), IsSpace)
    /\ AllIn(SubSeq(q, i + 1, Len(q)), IsFqnameChar)

\* ^from\s+[\w.]+\s+import\s+[\w*]+$
FromShape(q) ==
  \E a, b, c, d \in 1..Len(q) :
    /\ Len(kwFrom) < a /\ a < b /\ b < c /\ c + Len(kwImport) < d /\ d < Len(q)
    /\ SubSeq(q, 1, Len(kwFrom)) = kwFrom
    /\ AllIn(SubSeq(q, Len(kwFrom) + 1, a), IsSpace)
    /\ AllIn(SubSeq(q, a + 1, b), IsFqnameChar)
    /\ AllIn(SubSeq(q, b + 1, c), IsSpace)
    /\ SubSeq(q, c + 1, c + Len(kwImport)) = kwImport
    /\ AllIn(SubSeq(q, c + Len(kwImport) + 1, d), IsSpace)
    /\ AllIn(SubSeq(q, d + 1, Len(q)), IsStarWord)

\* _CODE_LIKE.fullmatch
CodeLike(q) == FromShape(q) \/ ImportShape(q)

\* _normalize_fts_query(q)
normalize_fts_query(query) ==
  LET q == Strip(query)
  IN IF FqnameLike(q) THEN fts_phrase(q)
     ELSE IF CodeLike(q)
             \/ (Contains(q, <<".">>) /\ Contains(q, <<" ">>)
                 /\ (Contains(q, kwImport) \/ Contains(q, kwFrom)))
       THEN fts_phrase(q)
     ELSE q

\* The tokenizer of the index: runs of letters and digits, case folded.
RECURSIVE TokenizeAcc(_, _, _)
TokenizeAcc(s, cur, acc) ==
  IF s = <<>> THEN (IF cur = <<>> THEN acc ELSE Append(acc, cur))
  ELSE IF IsAlnum(Head(s)) THEN TokenizeAcc(Tail(s), Append(cur, Lower(Head(s))), acc)
  ELSE TokenizeAcc(Tail(s), <<>>, IF cur = <<>> THEN acc ELSE Append(acc, cur))
Tokenize(s) == TokenizeAcc(s, <<>>, <<>>)

\* A quoted string of a MATCH expression, read after its opening quote.
RECURSIVE ReadString(_, _)
ReadString(s, acc) ==
  IF s = <<>> THEN [closed |-> FALSE, text |-> acc, rest |-> <<>>]
  ELSE IF Head(s) = "\"" /\ Len(s) >= 2 /\ s[2] = "\""
    THEN ReadString(Tail(Tail(s)), Append(acc, "\""))
  ELSE IF Head(s) = "\"" THEN [closed |-> TRUE, text |-> acc, rest |-> Tail(s)]
  ELSE ReadString(Tail(s), Append(acc, Head(s)))

RECURSIVE WordLen(_)
WordLen(s) == IF s # <<>> /\ IsWordChar(Head(s)) THEN 1 + WordLen(Tail(s)) ELSE 0

\* The MATCH expression read left to right: quoted strings and barewords are
\* phrases (implicitly ANDed); any other character is a syntax error, a string
\* without its closing quote a different error.
RECURSIVE FtsParseAcc(_, _)
FtsParseAcc(m, acc) ==
  IF m = <<>> THEN [status |-> IF acc = <<>> THEN "syntax" ELSE "ok", phrases |-> acc]
  ELSE IF IsSpace(Head(m)) THEN FtsParseAcc(Tail(m), acc)
  ELSE IF Head(m) = "\"" THEN
    LET r == ReadString(Tail(m), <<>>)
    IN IF r.closed THEN FtsParseAcc(r.rest, Append(acc, Tokenize(r.text)))
       ELSE [status |-> "unterminated", phrases |-> acc]
  ELSE IF IsWordChar(Head(m)) THEN
    LET n == WordLen(m)
    IN FtsParseAcc(SubSeq(m, n + 1, Len(m)), Append(acc, Tokenize(SubSeq(m, 1, n))))
  ELSE [status |-> "syntax", phrases |-> acc]
FtsParse(m) == FtsParseAcc(m, <<>>)

FtsColumns(doc) == {doc.fqname, doc.signature, doc.docstring, doc.summary} \ {NullText}

\* entities_fts MATCH ?: every non-empty phrase occurs in some column.
FtsMatch(doc, phrases) ==
  LET ne == SelectSeq(phrases, LAMBDA ph : ph # <<>>)
  IN /\ ne # <<>>
     /\ \A k \in 1..Len(ne) : \E col \in FtsColumns(doc) : Contains(Tokenize(col), ne[k])

\* How bm25 may order the documents of one query.
ScoreOrders == {"asc", "desc", "tie"}
Bm25(order, rowid) ==
  CASE order = "asc" -> rowid [] order = "desc" -> 0 - rowid [] OTHER -> 0

\* candidate_limit
candidate_limit(limit) ==
  LET a == IF CandidateCap < limit * CandidateFactor THEN CandidateCap
           ELSE limit * CandidateFactor
  IN IF limit > a THEN limit ELSE a

\* The rows of the SELECT ... JOIN ... WHERE MATCH ... AND e.kind IN (...).
SearchMatches(ents, docs, phrases, nk, order) ==
  {[row |-> ents[i], fts_score |-> Bm25(order, ents[i].id)] :
     i \in {j \in 1..Len(ents) :
              /\ KindClause(ents[j].kind, nk)
              /\ \E d \in 1..Len(docs) :
                   docs[d].rowid = ents[j].id /\ FtsMatch(docs[d], phrases)}}

\* The subsets of S that have k elements.
RECURSIVE KSubsets(_, _)
KSubsets(S, k) ==
  IF k = 0 THEN {{}}
  ELSE IF Cardinality(S) < k THEN {}
  ELSE LET x == CHOOSE y \in S : TRUE
       IN {T \cup {x} : T \in KSubsets(S \ {x}, k - 1)} \cup KSubsets(S \ {x}, k)

\* ORDER BY bm25 LIMIT candidate_limit: the possible candidate pools.  Rows
\* scoring better than the last row that fits are all fetched; rows tied
\* with it fill the remaining places in any combination.
CandidatePools(matches, cl) ==
  IF cl < 0 \/ Cardinality(matches) <= cl THEN {matches}
  ELSE LET AtMost(x) == {y \in matches : y.fts_score <= x.fts_score}
           Better(x) == {y \in matches : y.fts_score < x.fts_score}
           edge == {x \in matches :
                      Cardinality(Better(x)) <= cl /\ cl <= Cardinality(AtMost(x))}
           sure == {x \in matches : \E e \in edge : x.fts_score < e.fts_score}
           tied == {x \in matches : \E e \in edge : x.fts_score = e.fts_score}
       IN {sure \cup T : T \in KSubsets(tied, cl - Cardinality(sure))}

\* The sort key of the re-rank: (-boost, fts_score, kind, fqname).
RankLess(a, b, raw) ==
  LET ba == fqname_boost(a.row.fqname, raw)
      bb == fqname_boost(b.row.fqname, raw)
  IN \/ ba > bb
     \/ ba = bb /\ a.fts_score < b.fts_score
     \/ ba = bb /\ a.fts_score = b.fts_score /\ KindOrd(a.row.kind) < KindOrd(b.row.kind)
     \/ ba = bb /\ a.fts_score = b.fts_score /\ a.row.kind = b.row.kind
          /\ StrLess(a.row.fqname, b.row.fqname)
     \/ ba = bb /\ a.fts_score = b.fts_score /\ a.row.kind = b.row.kind
          /\ a.row.fqname = b.row.fqname /\ a.row.id < b.row.id

\* sorted(rows, key=...)[:limit]
Rerank(pool, raw, limit) ==
  Take(SortSet(pool, LAMBDA a, b : RankLess(a, b, raw)), limit)

\* Faulty variant: the literal-phrase retry follows every failure of the
\* first statement.
search_retrying_every_failure(ents, docs, query, limit, kinds, order) ==
  LET nk == NormalizeKinds(kinds)
      first == FtsParse(normalize_fts_query(query))
      retry == FtsParse(fts_phrase(Strip(query)))
      used == IF first.status # "ok" THEN retry ELSE first
      runs == IF first.status # "ok" THEN 2 ELSE 1
  IN IF used.status # "ok"
       THEN [raised |-> "OperationalError", runs |-> runs, results |-> {}]
       ELSE [raised |-> "none", runs |-> runs,
             results |->
               {Rerank(P, query, limit) :
                  P \in CandidatePools(SearchMatches(ents, docs, used.phrases, nk, order),
                                       candidate_limit(limit))}]

\* search(db, query, limit, kinds): the exception raised ("none" on return),
\* the number of MATCH statements executed and the possible result lists.
search(ents, docs, query, limit, kinds, order) ==
  LET nk == NormalizeKinds(kinds)
      first == FtsParse(normalize_fts_query(query))
      retry == FtsParse(fts_phrase(Strip(query)))
      used == IF first.status = "syntax" THEN retry ELSE first
      runs == IF first.status = "syntax" THEN 2 ELSE 1
  IN IF used.status # "ok"
       THEN [raised |-> "OperationalError", runs |-> runs, results |-> {}]
       ELSE [raised |-> "none", runs |-> runs,
             results |->
               {Rerank(P, query, limit) :
                  P \in CandidatePools(SearchMatches(ents, docs, used.phrases, nk, order),
                                       candidate_limit(limit))}]

(***************************************************************************)
(* Retrieval calls                                                         *)
(***************************************************************************)
Queries ==
  { fn, pfn, <<"F", "n">>, <<"f", "_">>, <<"%", "f", "n">>,
    <<"f", "n", " ", "a", "d">>, <<"\"">> }
KindArgs == {NoneKinds, <<"", "class">>, <<"function", "method">>}
Limits == 1..MaxLimit

\* Faulty variant: readers see the writer's uncommitted rows.
SnapshotUncommitted(committed, uncommitted) == uncommitted

\* What a reading connection sees of a table while a writer's transaction is
\* open: the last committed content (journal_mode=WAL, one transaction per ingest).
Snapshot(committed, uncommitted) == committed

ReadEntities == Snapshot(entities, IF txn.active THEN txn.entities ELSE entities)
ReadFts == Snapshot(fts, IF txn.active THEN txn.fts ELSE fts)

\* One call of lookup_symbol.
LookupSymbolCall(name, kinds, limit) ==
  /\ out = NoOut
  /\ out' = [op |-> "lookup_symbol", name |-> name, kinds |-> kinds, limit |-> limit,
             during |-> txn.active, n |-> nIngest,
             matches |-> lookup_symbol(ReadEntities, name, limit, kinds)]
  /\ UNCHANGED <<entities, relations, fts, now, txn, last, ingested, nIngest, nWrite>>

\* One call of best_match_entity.
BestMatchEntityCall(name, kinds) ==
  /\ out = NoOut
  /\ out' = [op |-> "best_match_entity", name |-> name, kinds |-> kinds,
             during |-> txn.active, n |-> nIngest,
             rows |-> best_match_entity(ReadEntities, name, kinds)]
  /\ UNCHANGED <<entities, relations, fts, now, txn, last, ingested, nIngest, nWrite>>

\* One call of search; `order` is how bm25 orders the documents.
SearchCall(query, kinds, limit, order) ==
  /\ out = NoOut
  /\ LET r == search(ReadEntities, ReadFts, query, limit, kinds, order)
     IN \/ /\ r.raised # "none"
           /\ out' = [op |-> "search", query |-> query, kinds |-> kinds,
                      limit |-> limit, order |-> order,
                      during |-> txn.active, n |-> nIngest,
                      raised |-> r.raised, runs |-> r.runs, results |-> <<>>]
        \/ /\ r.raised = "none"
           /\ \E res \in r.results :
                out' = [op |-> "search", query |-> query, kinds |-> kinds,
                        limit |-> limit, order |-> order,
                        during |-> txn.active, n |-> nIngest,
                        raised |-> "none", runs |-> r.runs, results |-> res]
  /\ UNCHANGED <<entities, relations, fts, now, txn, last, ingested, nIngest, nWrite>>

LookupSymbol ==
  \E name \in Queries, kinds \in KindArgs, limit \in Limits :
    LookupSymbolCall(name, kinds, limit)

BestMatchEntity ==
  \E name \in Queries, kinds \in KindArgs : BestMatchEntityCall(name, kinds)

Search ==
  \E query \in Queries, kinds \in KindArgs, limit \in Limits, order \in ScoreOrders :
    SearchCall(query, kinds, limit, order)

\* The caller takes the result.
Return ==
  /\ out # NoOut
  /\ out' = NoOut
  /\ UNCHANGED <<entities, relations, fts, now, txn, last, ingested, nIngest, nWrite>>

(***************************************************************************)
(* ingest_index statement by statement, inside its transaction             *)
(***************************************************************************)
\* `with conn:` and the first statement, DELETE FROM relations, which opens
\* the transaction.
TxnBegin ==
  /\ ~txn.active /\ nIngest < MaxIngests
  /\ \E idx \in Indexes, t \in Times :
       /\ txn' = [active |-> TRUE, pc |-> "insert_relations", idx |-> idx, t |-> t, pos |-> 1,
                  entities |-> entities, relations |-> <<>>, fts |-> fts]
       /\ now' = t
  /\ nIngest' = nIngest + 1
  /\ UNCHANGED <<entities, relations, fts, last, out, ingested, nWrite>>

\* executemany(INSERT INTO relations ...)
TxnInsertRelations ==
  /\ txn.active /\ txn.pc = "insert_relations"
  /\ RelationsOk(txn.idx.relations)
  /\ txn' = [txn EXCEPT !.relations = txn.idx.relations, !.pc = "upsert"]
  /\ UNCHANGED <<entities, relations, fts, now, last, out, ingested, nIngest, nWrite>>

\* One pass of the loop over idx["entities"].
TxnUpsert ==
  /\ txn.active /\ txn.pc = "upsert" /\ txn.pos <= Len(txn.idx.entities)
  /\ NotNullOk(txn.idx.entities[txn.pos])
  /\ txn' = [txn EXCEPT !.entities = Upsert(txn.entities, txn.idx.entities[txn.pos], txn.t),
                        !.pos = txn.pos + 1]
  /\ UNCHANGED <<entities, relations, fts, now, last, out, ingested, nIngest, nWrite>>

\* Faulty variant: the statements before the failing one stay written.
RolledBackKeepingWrites(committed, uncommitted) == uncommitted

\* conn.__exit__ on an exception: ROLLBACK, the table is as before the
\* transaction.
RolledBack(committed, uncommitted) == committed

\* A statement raises (an INSERT of a relation or of an entity violates NOT
\* NULL): `with conn:` rolls the transaction back.
TxnRollback ==
  /\ txn.active
  /\ \/ txn.pc = "insert_relations" /\ ~RelationsOk(txn.idx.relations)
     \/ /\ txn.pc = "upsert" /\ txn.pos <= Len(txn.idx.entities)
        /\ ~NotNullOk(txn.idx.entities[txn.pos])
  /\ entities' = RolledBack(entities, txn.entities)
  /\ relations' = RolledBack(relations, txn.relations)
  /\ fts' = RolledBack(fts, txn.fts)
  /\ txn' = NoTxn
  /\ last' = [op |-> "ingest", ok |-> FALSE, idx |-> txn.idx,
              preEntities |-> entities, preRelations |-> relations, preFts |-> fts,
              again |-> FALSE]
  /\ UNCHANGED <<now, out, ingested, nIngest, nWrite>>

\* INSERT INTO entities_fts(entities_fts) VALUES('rebuild')
TxnRebuild ==
  /\ txn.active /\ txn.pc = "upsert" /\ txn.pos > Len(txn.idx.entities)
  /\ txn' = [txn EXCEPT !.fts = RebuildFts(txn.entities), !.pc = "commit"]
  /\ UNCHANGED <<entities, relations, fts, now, last, out, ingested, nIngest, nWrite>>

\* Leaving `with conn:` commits.
TxnCommit ==
  /\ txn.active /\ txn.pc = "commit"
  /\ entities' = txn.entities
  /\ relations' = txn.relations
  /\ fts' = txn.fts
  /\ last' = [op |-> "ingest", ok |-> TRUE, idx |-> txn.idx,
              preEntities |-> entities, preRelations |-> relations, preFts |-> fts,
              again |-> last.op = "ingest" /\ last.ok /\ last.idx = txn.idx]
  /\ ingested' = ingested \cup IndexKeys(txn.idx)
  /\ txn' = NoTxn
  /\ UNCHANGED <<now, out, nIngest, nWrite>>

\* Retrieval calls made while an ingest is in progress.
ConcurrentQueries == {fn, <<"f", "n", " ", "a", "d">>, <<"\"">>}

ConcurrentLookupSymbol ==
  /\ txn.active
  /\ \E name \in ConcurrentQueries : LookupSymbolCall(name, NoneKinds, MaxLimit)

ConcurrentBestMatchEntity ==
  /\ txn.active
  /\ \E name \in ConcurrentQueries : BestMatchEntityCall(name, NoneKinds)

ConcurrentSearch ==
  /\ txn.active
  /\ \E query \in ConcurrentQueries, order \in ScoreOrders :
       SearchCall(query, NoneKinds, MaxLimit, order)

(***************************************************************************)
(* Recall evaluation (core/eval.py)                                        *)
(***************************************************************************)
\* A relevance judgment: a string fqname (obj FALSE) or an object with fqname
\* and kind (obj TRUE; kind "" when the object has none).
RelStr(fq) == [obj |-> FALSE, fqname |-> fq, kind |-> ""]
RelObj(fq, kind) == [obj |-> TRUE, fqname |-> fq, kind |-> kind]

\* _normalize_qrels_item: the stripped query, the stripped non-empty fqnames
\* and the explicit kinds (the last one given for an fqname); ok is FALSE where
\* the code raises ValueError.
NormalizeQrelsItem(item) ==
  LET query == Strip(item.query)
      rel == item.relevant
      fqs == [i \in 1..Len(rel) |-> Strip(rel[i].fqname)]
      badObj == \E i \in 1..Len(rel) : rel[i].obj /\ fqs[i] = <<>>
      relevant == {fqs[i] : i \in {j \in 1..Len(rel) : fqs[j] # <<>>}}
      kinded == {i \in 1..Len(rel) : rel[i].obj /\ ~IsBlank(rel[i].kind)}
      explicit == {fqs[i] : i \in kinded}
      relevant_kinds ==
        [fq \in explicit |->
           rel[CHOOSE i \in kinded :
                 fqs[i] = fq /\ \A j \in kinded : fqs[j] = fq => j <= i].kind]
  IN [ok |-> ~badObj /\ query # <<>> /\ relevant # {},
      query |-> query, relevant |-> relevant, relevant_kinds |-> relevant_kinds]

\* _fetch_entity_kinds: fqname -> kind over the stored rows; where several rows
\* share an fqname the dict keeps the one the statement returned last.
FetchEntityKinds(ents, fqnames) ==
  LET found == {fq \in fqnames : \E i \in 1..Len(ents) : ents[i].fqname = fq}
  IN {m \in [found -> Kinds] :
        \A fq \in found : \E i \in 1..Len(ents) :
           ents[i].fqname = fq /\ ents[i].kind = m[fq]}

\* relevant_kind_map[fq]: explicit kind, else stored kind, else None.
ResolvedKind(item, db_kinds, fq) ==
  IF fq \in DOMAIN item.relevant_kinds THEN item.relevant_kinds[fq]
  ELSE IF fq \in DOMAIN db_kinds THEN db_kinds[fq]
  ELSE NULL

\* `if kinds:` is false for None and for an empty list.
HasKinds(kinds) == kinds # NoneKinds /\ kinds # <<>>

\* Faulty variant: the allow-list is not applied to the relevant targets.
EligibleRelevantUnfiltered(item, db_kinds, kinds) == item.relevant

\* eligible_relevant
EligibleRelevant(item, db_kinds, kinds) ==
  IF HasKinds(kinds)
    THEN {fq \in item.relevant : ResolvedKind(item, db_kinds, fq) \in Range(kinds)}
    ELSE item.relevant

\* excluded_relevant: in ascending fqname order, None shown as "unknown".
ExcludedRelevant(item, db_kinds, kinds) ==
  LET ex == item.relevant \ EligibleRelevant(item, db_kinds, kinds)
      recs == {[fqname |-> fq,
                kind |-> IF ResolvedKind(item, db_kinds, fq) = NULL THEN "unknown"
                         ELSE ResolvedKind(item, db_kinds, fq)] : fq \in ex}
  IN SortSet(recs, LAMBDA a, b : StrLess(a.fqname, b.fqname))

\* The text of a warning is fixed by these four values.
Warning(query, nExcluded, nRelevant, kinds) ==
  [query |-> query, excluded |-> nExcluded, relevant |-> nRelevant, kinds |-> kinds]

\* Faulty variant: every eligible target counts as matched.
EligibleMatchedIgnoringReturned(eligible, returned) == eligible

\* eligible_relevant.intersection(returned_set)
EligibleMatched(eligible, returned) == eligible \cap Range(returned)

\* len(eligible_matched) / eligible_relevant_count as a fraction; 0.0 when
\* nothing is eligible.
RecallOf(matched, eligible) ==
  IF Cardinality(eligible) = 0 THEN [num |-> 0, den |-> 1]
  ELSE [num |-> Cardinality(matched), den |-> Cardinality(eligible)]

\* One entry of details for the fqnames the retriever returned.
Detail(item, db_kinds, kinds, returned) ==
  LET eligible == EligibleRelevant(item, db_kinds, kinds)
      matched == EligibleMatched(eligible, returned)
  IN [query |-> item.query,
      relevant_count |-> Cardinality(item.relevant),
      eligible_relevant_count |-> Cardinality(eligible),
      retrieved_count |-> Len(returned),
      matched_count |-> Cardinality(matched),
      eligible_matched_count |-> Cardinality(matched),
      recall_at_k |-> RecallOf(matched, eligible),
      hit_at_k |-> IF matched # {} THEN 1 ELSE 0,
      matched_fqnames |-> SortSet(matched, StrLess),
      excluded_relevant_by_kinds |-> ExcludedRelevant(item, db_kinds, kinds)]

\* The fqname lists the retriever may return for a query: [raised, lists].
Retrieved(ents, docs, query, k, retriever, kinds, order) ==
  IF retriever = "search"
    THEN LET r == search(ents, docs, query, k, kinds, order)
         IN [raised |-> r.raised,
             lists |-> {[i \in 1..Len(res) |-> res[i].row.fqname] : res \in r.results}]
    ELSE LET m == lookup_symbol(ents, query, k, kinds)
         IN [raised |-> "none", lists |-> {[i \in 1..Len(m) |-> m[i].row.fqname]}]

\* details of the rows `items`, one choice of returned list per row.
RECURSIVE EvalRows(_, _, _, _, _, _, _, _)
EvalRows(items, ents, docs, db_kinds, k, retriever, kinds, order) ==
  IF items = <<>> THEN {<<>>}
  ELSE LET item == Head(items)
           r == Retrieved(ents, docs, item.query, k, retriever, kinds, order)
       IN {<<Detail(item, db_kinds, kinds, Take(returned, k))>> \o rest :
             returned \in r.lists,
             rest \in EvalRows(Tail(items), ents, docs, db_kinds, k, retriever, kinds, order)}

\* The sum of the fractions fs[1..n].
RECURSIVE FracSum(_)
FracSum(fs) ==
  IF fs = <<>> THEN [num |-> 0, den |-> 1]
  ELSE LET s == FracSum(Tail(fs))
       IN [num |-> Head(fs).num * s.den + s.num * Head(fs).den,
           den |-> Head(fs).den * s.den]

\* The mean of n fractions; 0.0 for n = 0.
FracMean(fs) ==
  IF fs = <<>> THEN [num |-> 0, den |-> 1]
  ELSE [num |-> FracSum(fs).num, den |-> FracSum(fs).den * Len(fs)]

Retrievers == {"search", "lookup"}

\* evaluate_recall_at_k(db, qrels, k, retriever, kinds): the possible outcomes.
evaluate_recall_at_k(ents, docs, qrels, k, retriever, kinds, order) ==
  LET items == [i \in 1..Len(qrels) |-> NormalizeQrelsItem(qrels[i])]
      all_relevant == UNION {items[i].relevant : i \in 1..Len(items)}
      failed == [raised |-> "ValueError", details |-> <<>>, warnings |-> {},
                 num_queries |-> 0,
                 recall_at_k |-> [num |-> 0, den |-> 1],
                 hit_rate_at_k |-> [num |-> 0, den |-> 1]]
  IN IF k <= 0 \/ retriever \notin Retrievers
          \/ \E i \in 1..Len(items) : ~items[i].ok
       THEN {failed}
     ELSE IF \E i \in 1..Len(items) :
               Retrieved(ents, docs, items[i].query, k, retriever, kinds, order).raised
                 # "none"
       THEN {[failed EXCEPT !.raised = "OperationalError"]}
     ELSE
       {[raised |-> "none",
         details |-> ds,
         warnings |->
           {Warning(ds[i].query, Len(ds[i].excluded_relevant_by_kinds),
                    ds[i].relevant_count, kinds) :
              i \in {j \in 1..Len(ds) : ds[j].excluded_relevant_by_kinds # <<>>}},
         num_queries |-> Len(ds),
         recall_at_k |-> FracMean([i \in 1..Len(ds) |-> ds[i].recall_at_k]),
         hit_rate_at_k |-> FracMean([i \in 1..Len(ds) |->
                                       [num |-> ds[i].hit_at_k, den |-> 1]])] :
          ds \in UNION {EvalRows(items, ents, docs, dk, k, retriever, kinds, order) :
                          dk \in FetchEntityKinds(ents, all_relevant)}}

QA == [query |-> fn, relevant |-> <<RelStr(fn), RelStr(pfn)>>]
QB == [query |-> fn,
       relevant |-> <<RelObj(pfn, "function"), RelStr(pfnx), RelStr(<<" ">>)>>]
QC == [query |-> <<"f", "n", " ", "a", "d">>, relevant |-> <<RelStr(pmod), RelStr(<<"z">>)>>]
QD == [query |-> <<" ">>, relevant |-> <<RelStr(fn)>>]
QE == [query |-> fn, relevant |-> <<RelObj(<<>>, "class")>>]
QF == [query |-> <<"\"">>, relevant |-> <<RelStr(pfn)>>]

\* The judgment files evaluated: partial recall, explicit kinds, an unknown
\* target, a repeated query, and rows the code rejects.
QrelsPool ==
  {<<>>, <<QA>>, <<QB>>, <<QC, QA>>, <<QB, QB>>, <<QA, QD>>, <<QE>>, <<QF>>}

EvalKinds == {NoneKinds, <<>>, <<"class">>, <<"function", "method">>}

\* One call of evaluate_recall_at_k.
EvaluateRecall ==
  /\ out = NoOut
  /\ ~txn.active
  /\ \E qrels \in QrelsPool, k \in 0..MaxLimit, retriever \in Retrievers \cup {"bm25"},
        kinds \in EvalKinds, order \in ScoreOrders :
       \E r \in evaluate_recall_at_k(entities, fts, qrels, k, retriever, kinds, order) :
         out' = [op |-> "evaluate", qrels |-> qrels, k |-> k, retriever |-> retriever,
                 kinds |-> kinds, order |-> order, raised |-> r.raised,
                 details |-> r.details, warnings |-> r.warnings,
                 num_queries |-> r.num_queries, recall_at_k |-> r.recall_at_k,
                 hit_rate_at_k |-> r.hit_rate_at_k]
  /\ UNCHANGED <<entities, relations, fts, now, txn, last, ingested, nIngest, nWrite>>

(***************************************************************************)
(* Navigation: class_methods, module_neighbors, get_snippet                *)
(***************************************************************************)
Fn == <<"F", "n">>

NavEntity(kind, fqname, file, s, e) ==
  [kind |-> kind, fqname |-> fqname, file |-> file, start_line |-> s, end_line |-> e,
   signature |-> fqname, docstring |-> <<>>, summary |-> <<>>, code_hash |-> "h"]

\* A class Fn with three direct methods and a nested class, a class fn with a
\* method of its own, two functions after the class, and the module.
NavEntities ==
  << NavEntity("class", Fn, "a.py", 1, 11),
     NavEntity("method", Fn \o <<".", "_", "_", "i", "n", "i", "t", "_", "_">>, "a.py", 5, 6),
     NavEntity("method", Fn \o <<".", "t", "o", "_", "x">>, "a.py", 3, 4),
     NavEntity("method", Fn \o <<".", "a", "d">>, "a.py", 2, 2),
     NavEntity("method", Fn \o <<".", "d", ".", "a", "d">>, "a.py", 8, 9),
     NavEntity("method", fn \o <<".", "a", "d">>, "b.py", 2, 3),
     NavEntity("function", fn, "a.py", 13, 14),
     NavEntity("function", pfn, "a.py", 16, 17),
     NavEntity("module", pmod, "a.py", 1, 17) >>

MaxStored == 4

\* The indexes that hold at most MaxStored of these entities, in scan order.
NavIndexes ==
  {[entities |-> [i \in 1..Cardinality(S) |->
                    NavEntities[CHOOSE x \in S : Cardinality({y \in S : y < x}) = i - 1]],
    relations |-> <<>>] :
     S \in {T \in SUBSET (1..Len(NavEntities)) : Cardinality(T) <= MaxStored}}

MethodRowCap == 250
ScoreExact == 0
ScorePrefix == 1
ScoreOther == 5

prefer_exact ==
  { <<"_", "_", "i", "n", "i", "t", "_", "_">>,
    <<"f", "r", "o", "m", "_", "d", "i", "c", "t">>,
    <<"a", "s", "_", "d", "i", "c", "t">>,
    <<"t", "o", "_", "d", "i", "c", "t">>,
    <<"f", "r", "o", "m", "_", "j", "s", "o", "n">>,
    <<"t", "o", "_", "j", "s", "o", "n">> }
prefer_prefix ==
  { <<"f", "r", "o", "m", "_">>, <<"a", "s", "_">>, <<"t", "o", "_">>,
    <<"g", "e", "t", "_">>, <<"s", "e", "t", "_">>, <<"i", "s", "_">>,
    <<"h", "a", "s", "_">> }

\* ORDER BY start_line, fqname (rowid where the ORDER BY leaves rows tied).
LineNameLess(a, b) ==
  \/ a.start_line < b.start_line
  \/ a.start_line = b.start_line /\ StrLess(a.fqname, b.fqname)
  \/ a.start_line = b.start_line /\ a.fqname = b.fqname /\ a.id < b.id

\* The SELECT of class_methods.
MethodRows(ents, class_fqname) ==
  SqlLimit(SortSet({ents[i] : i \in {j \in 1..Len(ents) :
                       /\ ents[j].kind = "method"
                       /\ Like(class_fqname \o <<".", "%">>, ents[j].fqname)}},
                   LineNameLess),
           MethodRowCap)

\* _method_name
MethodName(fqname, class_fqname) ==
  IF ~StartsWith(fqname, class_fqname \o <<".">>) THEN LastSegment(fqname)
  ELSE SubSeq(fqname, Len(class_fqname) + 2, Len(fqname))

MethodScore(method) ==
  IF method \in prefer_exact THEN ScoreExact
  ELSE IF \E p \in prefer_prefix : StartsWith(method, p) THEN ScorePrefix
  ELSE ScoreOther

\* A stable sort of the entries `items` (records with a field pos, their
\* position before the sort) under the strict order KeyLess on their keys.
StableSort(items, KeyLess(_, _)) ==
  SortSet(items, LAMBDA a, b : KeyLess(a, b) \/ (~KeyLess(b, a) /\ a.pos < b.pos))

\* The key (score, start_line, method).
MethodKeyLess(a, b) ==
  \/ a.score < b.score
  \/ a.score = b.score /\ a.row.start_line < b.row.start_line
  \/ a.score = b.score /\ a.row.start_line = b.row.start_line
       /\ StrLess(a.method, b.method)

\* max(1, limit)
AtLeastOne(limit) == IF limit < 1 THEN 1 ELSE limit

\* class_methods(db, class_fqname, limit)
class_methods(ents, class_fqname, limit) ==
  LET rows == MethodRows(ents, class_fqname)
      ranked == {[row |-> rows[i], pos |-> i,
                  method |-> MethodName(rows[i].fqname, class_fqname),
                  score |-> MethodScore(MethodName(rows[i].fqname, class_fqname))] :
                   i \in {j \in 1..Len(rows) :
                            ~Contains(MethodName(rows[j].fqname, class_fqname), <<".">>)}}
      sorted == StableSort(ranked, MethodKeyLess)
  IN Take([i \in 1..Len(sorted) |-> sorted[i].row], AtLeastOne(limit))

\* The SELECT of module_neighbors.
NeighborRows(ents, file) ==
  SortSet({ents[i] : i \in {j \in 1..Len(ents) :
              ents[j].file = file /\ ents[j].kind \in {"class", "function", "method"}}},
          LineNameLess)

\* Faulty variant: the gap is always measured from the reference start.
DistanceFromStart(row, start_line, end_line) ==
  IF row.end_line < start_line THEN start_line - row.end_line
  ELSE IF row.start_line > start_line THEN row.start_line - start_line
  ELSE 0

\* _distance
Distance(row, start_line, end_line) ==
  IF row.end_line < start_line THEN start_line - row.end_line
  ELSE IF row.start_line > end_line THEN row.start_line - end_line
  ELSE 0

KindRankDefault == 9
\* kind_rank.get(kind, 9)
KindRank(kind) ==
  CASE kind \in {"class", "function"} -> 0 [] kind = "method" -> 1
    [] OTHER -> KindRankDefault

\* The key (kind rank, distance, start_line, fqname).
NeighborKeyLess(a, b) ==
  \/ a.rank < b.rank
  \/ a.rank = b.rank /\ a.d < b.d
  \/ a.rank = b.rank /\ a.d = b.d /\ a.row.start_line < b.row.start_line
  \/ a.rank = b.rank /\ a.d = b.d /\ a.row.start_line = b.row.start_line
       /\ StrLess(a.row.fqname, b.row.fqname)

\* module_neighbors(db, file, start_line, end_line, exclude_id=..., limit=...);
\* exclude_id is NullInt for None.
module_neighbors(ents, file, start_line, end_line, exclude_id, limit) ==
  LET rows == NeighborRows(ents, file)
      scored == {[row |-> rows[i], pos |-> i, rank |-> KindRank(rows[i].kind),
                  d |-> Distance(rows[i], start_line, end_line)] :
                   i \in {j \in 1..Len(rows) :
                            ~(exclude_id # NullInt /\ rows[j].id = exclude_id)}}
      sorted == StableSort(scored, NeighborKeyLess)
  IN Take([i \in 1..Len(sorted) |-> sorted[i].row], AtLeastOne(limit))

\* The source tree under CONTEXT6_SOURCE_ROOT: the line count of each file
\* that exists.
SourceTree == [f \in {"a.py"} |-> 12]

\* Faulty variant: the source root is examined before the entity is looked up.
get_snippet_root_first(ents, fqname, arc_root) ==
  IF arc_root \in {NULL, ""}
    THEN {[result |-> "error_config", reads |-> 0, id |-> 0, start_line |-> 0,
           end_line |-> 0]}
    ELSE {[result |-> "error_not_found", reads |-> 0, id |-> 0, start_line |-> 0,
           end_line |-> 0]}

\* get_snippet(db, fqname) with CONTEXT6_SOURCE_ROOT = arc_root (NULL when
\* unset): the possible outcomes, with the number of source files read.
get_snippet(ents, fqname, arc_root) ==
  LET found == {i \in 1..Len(ents) : ents[i].fqname = fqname}
      none == [result |-> "error_not_found", reads |-> 0, id |-> 0, start_line |-> 0,
               end_line |-> 0]
  IN IF found = {} THEN {none}
     ELSE IF arc_root \in {NULL, ""} THEN {[none EXCEPT !.result = "error_config"]}
     ELSE {IF ents[i].file \in DOMAIN SourceTree
             THEN LET n == SourceTree[ents[i].file]
                      s == IF ents[i].start_line < 1 THEN 1 ELSE ents[i].start_line
                      e == IF n < ents[i].end_line THEN n ELSE ents[i].end_line
                  IN [result |-> "snippet", reads |-> 1, id |-> ents[i].id,
                      start_line |-> s, end_line |-> e]
             ELSE [result |-> "FileNotFoundError", reads |-> 1, id |-> ents[i].id,
                   start_line |-> 0, end_line |-> 0] : i \in found}

ClassArgs == {Fn, fn, <<"F", "_">>}
NavLimits == 0..MaxLimit
RefRanges == {<<1, 11>>, <<13, 14>>, <<6, 7>>}
SnippetArgs == {Fn, fn, <<"z">>}
SourceRoots == {NULL, "", "/src"}

\* One call of class_methods.
ClassMethods ==
  /\ out = NoOut
  /\ \E cls \in ClassArgs, limit \in NavLimits :
       out' = [op |-> "class_methods", class_fqname |-> cls, limit |-> limit,
               rows |-> class_methods(entities, cls, limit)]
  /\ UNCHANGED <<entities, relations, fts, now, txn, last, ingested, nIngest, nWrite>>

\* One call of module_neighbors.
ModuleNeighbors ==
  /\ out = NoOut
  /\ \E file \in {"a.py", "b.py"}, ref \in RefRanges,
        exclude_id \in {NullInt} \cup (1..MaxStored), limit \in {0, MaxStored} :
       out' = [op |-> "module_neighbors", file |-> file, start_line |-> ref[1],
               end_line |-> ref[2], exclude_id |-> exclude_id, limit |-> limit,
               rows |-> module_neighbors(entities, file, ref[1], ref[2], exclude_id, limit)]
  /\ UNCHANGED <<entities, relations, fts, now, txn, last, ingested, nIngest, nWrite>>

\* One call of get_snippet.
GetSnippet ==
  /\ out = NoOut
  /\ \E fqname \in SnippetArgs, arc_root \in SourceRoots :
       \E r \in get_snippet(entities, fqname, arc_root) :
         out' = [op |-> "get_snippet", fqname |-> fqname, arc_root |-> arc_root,
                 result |-> r.result, reads |-> r.reads, id |-> r.id,
                 start_line |-> r.start_line, end_line |-> r.end_line]
  /\ UNCHANGED <<entities, relations, fts, now, txn, last, ingested, nIngest, nWrite>>

\* A database that one ingest of a scanned tree has built.
InitNav ==
  \E idx \in NavIndexes :
    LET r == IngestResult(<<>>, <<>>, <<>>, idx, 0)
    IN /\ entities = r.entities /\ relations = r.relations /\ fts = r.fts
       /\ now = 0
       /\ txn = NoTxn /\ out = NoOut
       /\ last = [op |-> "ingest", ok |-> r.ok, idx |-> idx, preEntities |-> <<>>,
                  preRelations |-> <<>>, preFts |-> <<>>, again |-> FALSE]
       /\ ingested = IndexKeys(idx)
       /\ nIngest = 1 /\ nWrite = 0

(***************************************************************************)
(* normalize_resolve_query (core/retrieve.py)                              *)
(***************************************************************************)
\* The length of the longest prefix of s whose characters all satisfy P.
PrefixLen(s, P(_)) ==
  CHOOSE n \in 0..Len(s) :
    /\ \A i \in 1..n : P(s[i])
    /\ n = Len(s) \/ ~P(s[n + 1])

Drop(s, k) == SubSeq(s, k + 1, Len(s))

IsIdentStart(c) == IsUpper(c) \/ IsLowerLetter(c) \/ c = "_"
IsModuleChar(c) == IsWordChar(c) \/ c = "."

\* _IDENT.fullmatch(sym)
IsIdent(sym) ==
  sym # <<>> /\ IsIdentStart(sym[1]) /\ \A i \in 2..Len(sym) : IsWordChar(sym[i])

\* s.split(sep) for a one-character separator.
RECURSIVE SplitOn(_, _)
SplitOn(s, sep) ==
  IF \A i \in 1..Len(s) : s[i] # sep THEN <<s>>
  ELSE LET k == CHOOSE i \in 1..Len(s) : s[i] = sep /\ \A j \in 1..(i - 1) : s[j] # sep
       IN <<SubSeq(s, 1, k - 1)>> \o SplitOn(Drop(s, k), sep)

\* s.split(" as ", 1)[0]
asWord == <<" ", "a", "s", " ">>
BeforeAs(s) ==
  IF ~Contains(s, asWord) THEN s
  ELSE LET k == CHOOSE i \in 0..(Len(s) - 4) :
                  /\ SubSeq(s, i + 1, i + 4) = asWord
                  /\ \A j \in 0..(i - 1) : SubSeq(s, j + 1, j + 4) # asWord
       IN SubSeq(s, 1, k)

\* [A-Za-z_][\w.]* at the start of s: the length matched, 0 for no match.
ModuleLen(s) ==
  IF s = <<>> \/ ~IsIdentStart(s[1]) THEN 0
  ELSE 1 + PrefixLen(Tail(s), IsModuleChar)

\* re.match(r"^\s*from\s+([A-Za-z_][\w.]*)\s+import\s+(.+?)\s*$", raw_query):
\* [ok, mod, imported].
FromMatch(raw) ==
  LET s0 == LStrip(raw)
      s1 == Drop(s0, Len(kwFrom))
      s2 == LStrip(s1)
      s3 == Drop(s2, ModuleLen(s2))
      s4 == LStrip(s3)
      s5 == Drop(s4, Len(kwImport))
      s6 == LStrip(s5)
      ok == /\ StartsWith(s0, kwFrom)
            /\ s2 # s1 /\ ModuleLen(s2) > 0
            /\ s4 # s3 /\ StartsWith(s4, kwImport)
            /\ s6 # s5 /\ s6 # <<>>
  IN [ok |-> ok,
      mod |-> IF ok THEN SubSeq(s2, 1, ModuleLen(s2)) ELSE <<>>,
      imported |-> IF ok THEN RStrip(s6) ELSE <<>>]

\* The values the from-import branch passes to add(), in order.
RECURSIVE FromAdds(_, _)
FromAdds(mod, parts) ==
  IF parts = <<>> THEN <<>>
  ELSE LET sym == Strip(BeforeAs(Strip(Head(parts))))
       IN (IF IsIdent(sym) THEN <<sym, mod \o <<".">> \o sym>> ELSE <<>>)
            \o FromAdds(mod, Tail(parts))

\* re.match(r"^\s*import\s+([A-Za-z_][\w.]*)", raw_query): the values added.
ImportAdds(raw) ==
  LET s0 == LStrip(raw)
      s1 == Drop(s0, Len(kwImport))
      s2 == LStrip(s1)
  IN IF StartsWith(s0, kwImport) /\ s2 # s1 /\ ModuleLen(s2) > 0
       THEN LET mod == SubSeq(s2, 1, ModuleLen(s2))
            IN <<mod, LastSegment(mod)>>
       ELSE <<>>

\* re.sub of the bracketing characters (backquote, parentheses, brackets,
\* braces, colon, comma) by " ", one space per character replaced (the split
\* on \s+ that follows does not tell the difference).  The backquote is not
\* among the characters of the modelled queries.
IsBracketing(c) == c \in {"(", ")", "[", "]", "{", "}", ":", ","}
Cleaned(raw) == [i \in 1..Len(raw) |-> IF IsBracketing(raw[i]) THEN " " ELSE raw[i]]

\* The non-empty pieces of re.split(r"\s+", s).
RECURSIVE WsSplit(_)
WsSplit(s) ==
  LET t == LStrip(s)
      n == PrefixLen(t, LAMBDA c : ~IsSpace(c))
  IN IF t = <<>> THEN <<>> ELSE <<SubSeq(t, 1, n)>> \o WsSplit(Drop(t, n))

\* The values the dotted-token loop adds for one token.
TokenAdds(tok) ==
  LET parts == SelectSeq(SplitOn(tok, "."), LAMBDA p : p # <<>>)
      n == Len(parts)
  IN IF n = 0 THEN <<>>
     ELSE <<tok, parts[n]>>
            \o (IF n >= 2 THEN <<parts[n - 1] \o <<".">> \o parts[n], parts[n - 1]>>
                ELSE <<>>)

RECURSIVE DottedAdds(_)
DottedAdds(toks) ==
  IF toks = <<>> THEN <<>>
  ELSE (IF Contains(Head(toks), <<".">>) THEN TokenAdds(Head(toks)) ELSE <<>>)
         \o DottedAdds(Tail(toks))

\* Faulty variant: add() without the `seen` test.
AddAllKeepingRepeats(vs) == SelectSeq([i \in 1..Len(vs) |-> Strip(vs[i])], LAMBDA v : v # <<>>)

\* add() applied to the values vs in order: stripped, empty and seen ones dropped.
AddAll(vs) ==
  LET st == [i \in 1..Len(vs) |-> Strip(vs[i])]
      keep == {i \in 1..Len(st) : st[i] # <<>> /\ \A j \in 1..(i - 1) : st[j] # st[i]}
  IN [k \in 1..Cardinality(keep) |->
        st[CHOOSE i \in keep : Cardinality({j \in keep : j < i}) = k - 1]]

\* Faulty variant: the qualified name is added before the bare one.
FromCandidatesQualifiedFirst(raw) ==
  LET m == FromMatch(raw)
      adds == IF m.ok THEN FromAdds(m.mod, SplitOn(m.imported, ",")) ELSE <<>>
  IN [i \in 1..Len(adds) |-> IF i % 2 = 1 THEN adds[i + 1] ELSE adds[i - 1]]

\* The values of the from-import branch for a query.
FromCandidates(raw) ==
  LET m == FromMatch(raw)
  IN IF m.ok THEN FromAdds(m.mod, SplitOn(m.imported, ",")) ELSE <<>>

\* normalize_resolve_query(query)
normalize_resolve_query(query) ==
  LET raw == Strip(query)
      candidates ==
        AddAll(FromCandidates(raw) \o ImportAdds(raw) \o DottedAdds(WsSplit(Cleaned(raw)))
                 \o <<raw>>
                 \o (IF Contains(raw, <<".">>) THEN <<LastSegment(raw)>> ELSE <<>>))
  IN IF raw = <<>>
       THEN [raw_query |-> raw, normalized_query |-> <<>>, candidates |-> <<>>]
       ELSE [raw_query |-> raw,
             normalized_query |-> IF candidates # <<>> THEN candidates[1] ELSE raw,
             candidates |-> candidates]

MaxNames == 2

\* An imported name, whether it is a plain identifier, and its alias (<<>>
\* for none).
ImportItem(name, ident, alias) == [name |-> name, ident |-> ident, alias |-> alias]
ImportItems ==
  {ImportItem(n[1], n[2], al) :
     n \in {<< <<"a">>, TRUE >>, << <<"b">>, TRUE >>, << <<"*">>, FALSE >>,
            << <<"m", ".", "a">>, FALSE >>},
     al \in {<<>>, <<"c">>}}

RenderItem(it) == IF it.alias = <<>> THEN it.name ELSE it.name \o asWord \o it.alias

RECURSIVE Join(_, _)
Join(parts, sep) ==
  IF parts = <<>> THEN <<>>
  ELSE IF Len(parts) = 1 THEN parts[1]
  ELSE parts[1] \o sep \o Join(Tail(parts), sep)

\* The text "from <module> import <item><sep><item>...".
RenderFrom(mod, items, sep) ==
  kwFrom \o <<" ">> \o mod \o <<" ">> \o kwImport \o <<" ">>
    \o Join([i \in 1..Len(items) |-> RenderItem(items[i])], sep)

FromInputs ==
  {[form |-> "from", module |-> mod, items |-> items, query |-> RenderFrom(mod, items, sep)] :
     mod \in {<<"m">>, <<"p", ".", "m">>},
     items \in UNION {[1..n -> ImportItems] : n \in 1..MaxNames},
     sep \in {<<",">>, <<",", " ">>}}

PlainQueries ==
  { <<>>, <<" ">>, <<"a">>, <<" ", "a", " ">>, <<"p", ".", "a">>, <<"p", ".", "m", ".", "a">>,
    <<"a", " ", "b">>, <<"a", ".">>, <<".", ".">>, <<"p", ".", "a", " ", "b">>,
    <<"(", "p", ".", "a", ")", ":">>, <<"p", ".", "a", " ", "p", ".", "a">>,
    kwImport \o <<" ", "p", ".", "m">>, kwImport \o <<" ", "m">>,
    kwImport \o <<" ", "p", ".">>, kwFrom \o <<" ", "m", " ">> \o kwImport }

ResolveInputs ==
  FromInputs
    \cup {[form |-> "plain", module |-> <<>>, items |-> <<>>, query |-> q] : q \in PlainQueries}

\* One call of normalize_resolve_query.
ResolveQuery ==
  /\ out = NoOut
  /\ \E input \in ResolveInputs :
       LET r == normalize_resolve_query(input.query)
       IN out' = [op |-> "resolve", form |-> input.form, module |-> input.module,
                  items |-> input.items, query |-> input.query,
                  raw_query |-> r.raw_query, normalized_query |-> r.normalized_query,
                  candidates |-> r.candidates]
  /\ UNCHANGED <<entities, relations, fts, now, txn, last, ingested, nIngest, nWrite>>

(***************************************************************************)
(* Indexer: build_index and _signature (core/indexer.py)                   *)
(*                                                                         *)
(* A source tree is the sequence of files in the order rglob yields them.  *)
(* A file carries its path below the root, its text, and what ast.parse    *)
(* does with the text: the tree, or the exception it raises.  Docstrings,  *)
(* file texts and source segments are opaque strings.                      *)
(***************************************************************************)
\* ast.arguments; an absent *vararg or **kwarg (None) is the empty name.
Arguments(posonlyargs, args, vararg, kwonlyargs, kwarg) ==
  [posonlyargs |-> posonlyargs, args |-> args, vararg |-> vararg,
   kwonlyargs |-> kwonlyargs, kwarg |-> kwarg]

NoArguments == Arguments(<<>>, <<>>, <<>>, <<>>, <<>>)

\* A statement node of a module or class body.
Node(type, name, lineno, end_lineno, args, body, doc) ==
  [type |-> type, name |-> name, lineno |-> lineno, end_lineno |-> end_lineno,
   args |-> args, body |-> body, doc |-> doc]

\* isinstance(node, (ast.FunctionDef, ast.AsyncFunctionDef))
IsFunctionDef(node) == node.type \in {"FunctionDef", "AsyncFunctionDef"}
\* isinstance(node, ast.ClassDef)
IsClassDef(node) == node.type = "ClassDef"

\* The list args of _signature: node.args.args, "*" + vararg, kwonlyargs,
\* "**" + kwarg.  node.args.posonlyargs is not read.
SignatureArgs(node) ==
  node.args.args
    \o (IF node.args.vararg # <<>> THEN << <<"*">> \o node.args.vararg >> ELSE <<>>)
    \o node.args.kwonlyargs
    \o (IF node.args.kwarg # <<>> THEN << <<"*", "*">> \o node.args.kwarg >> ELSE <<>>)

\* ', '.join(args)
RECURSIVE JoinComma(_)
JoinComma(args) ==
  IF args = <<>> THEN <<>>
  ELSE IF Len(args) = 1 THEN args[1]
  ELSE args[1] \o <<",", " ">> \o JoinComma(Tail(args))

\* _signature(node)
Signature(node) == node.name \o <<"(">> \o JoinComma(SignatureArgs(node)) \o <<")">>

\* _hash(s): the SHA-256 digest, taken as injective.
Hash(s) == <<"sha256", s>>

\* ast.get_source_segment(src, node): the text of the node, told apart by
\* the node's type, name and lines.
get_source_segment(node) == <<node.type, node.name, <<node.lineno, node.end_lineno>> >>

\* The directory names at indexer.py:79.
SkipDirs ==
  { <<"v", "e", "n", "v">>, <<"e", "n", "v">>,
    <<"_", "_", "p", "y", "c", "a", "c", "h", "e", "_", "_">>,
    <<".", "m", "y", "p", "y", "_", "c", "a", "c", "h", "e">>,
    <<".", "p", "y", "t", "e", "s", "t", "_", "c", "a", "c", "h", "e">>,
    <<".", "g", "i", "t">>, <<".", "i", "d", "e", "a">>, <<".">>,
    <<"b", "u", "i", "l", "d">> }

pySuffix == <<".", "p", "y">>

\* rglob("*.py") yields the file.
MatchesPy(file) == EndsWith(file.rel, pySuffix)

\* p.parts of root / rel for a resolved root: the anchor, the root's own
\* components, then the components below the root.
Parts(root, file) == << <<"/">> >> \o root \o SplitOn(file.rel, "/")

\* any(part in {...} for part in p.parts)
InSkippedDir(root, file) == \E i \in DOMAIN Parts(root, file) : Parts(root, file)[i] \in SkipDirs

\* rel[:-3].replace("/", ".")
ModName(rel) ==
  LET stem == Take(rel, 0 - 3)
  IN [i \in 1..Len(stem) |-> IF stem[i] = "/" THEN "." ELSE stem[i]]

Dotted(a, b) == a \o <<".">> \o b

IndexEntity(kind, fqname, file, start_line, end_line, signature, docstring, code_hash) ==
  [kind |-> kind, fqname |-> fqname, file |-> file, start_line |-> start_line,
   end_line |-> end_line, signature |-> signature, docstring |-> docstring,
   code_hash |-> code_hash]

IndexRelation(src, rel, dst) == [src |-> src, rel |-> rel, dst |-> dst]

RECURSIVE Flatten(_)
Flatten(seqs) == IF seqs = <<>> THEN <<>> ELSE Head(seqs) \o Flatten(Tail(seqs))

\* The function definitions directly in a class body.
MethodNodes(node) == SelectSeq(node.body, IsFunctionDef)

classWord == <<"c", "l", "a", "s", "s", " ">>

\* The entities one statement of the module body contributes.
NodeEntities(mod_name, rel, node) ==
  IF IsClassDef(node)
    THEN LET fq == Dotted(mod_name, node.name)
             subs == MethodNodes(node)
         IN << IndexEntity("class", fq, rel, node.lineno, node.end_lineno,
                           classWord \o node.name, node.doc, Hash(get_source_segment(node))) >>
              \o [i \in 1..Len(subs) |->
                    IndexEntity("method", Dotted(fq, subs[i].name), rel, subs[i].lineno,
                                subs[i].end_lineno, Signature(subs[i]), subs[i].doc,
                                Hash(get_source_segment(subs[i])))]
  ELSE IF IsFunctionDef(node)
    THEN << IndexEntity("function", Dotted(mod_name, node.name), rel, node.lineno,
                        node.end_lineno, Signature(node), node.doc, Hash(get_source_segment(node))) >>
  ELSE <<>>

\* The defines relations one statement of the module body contributes.
NodeRelations(mod_name, node) ==
  IF IsClassDef(node)
    THEN LET fq == Dotted(mod_name, node.name)
             subs == MethodNodes(node)
         IN << IndexRelation(mod_name, "defines", fq) >>
              \o [i \in 1..Len(subs) |->
                    IndexRelation(mod_name, "defines", Dotted(fq, subs[i].name))]
  ELSE IF IsFunctionDef(node)
    THEN << IndexRelation(mod_name, "defines", Dotted(mod_name, node.name)) >>
  ELSE <<>>

\* The imports relations of one Import / ImportFrom node met by ast.walk.
ImportRelations(mod_name, node) ==
  IF node.type = "Import"
    THEN [i \in 1..Len(node.names) |-> IndexRelation(mod_name, "imports", node.names[i])]
  ELSE IF node.type = "ImportFrom" /\ node.module # <<>>
    THEN << IndexRelation(mod_name, "imports", node.module) >>
  ELSE <<>>

\* The entities of one parsed file: the module, then its classes with their
\* methods and its functions in body order.
FileEntities(file) ==
  LET mod_name == ModName(file.rel)
      body == file.tree.body
  IN << IndexEntity("module", mod_name, file.rel, 1, file.nlines, <<>>, file.tree.doc,
                    Hash(file.text)) >>
       \o Flatten([i \in 1..Len(body) |-> NodeEntities(mod_name, file.rel, body[i])])

\* The relations of one parsed file: defines in body order, then imports in
\* ast.walk order.
FileRelations(file) ==
  LET mod_name == ModName(file.rel)
      body == file.tree.body
      walk == file.tree.imports
  IN Flatten([i \in 1..Len(body) |-> NodeRelations(mod_name, body[i])])
       \o Flatten([i \in 1..Len(walk) |-> ImportRelations(mod_name, walk[i])])

\* The loop of build_index over the files rglob yields.  An exception of
\* ast.parse other than SyntaxError leaves the function: nothing is returned.
RECURSIVE ScanFiles(_, _, _, _)
ScanFiles(root, files, ents, rels) ==
  IF files = <<>> THEN [raised |-> "none", entities |-> ents, relations |-> rels]
  ELSE LET p == Head(files)
       IN IF ~MatchesPy(p) \/ InSkippedDir(root, p) THEN ScanFiles(root, Tail(files), ents, rels)
          ELSE IF p.parse = "SyntaxError" THEN ScanFiles(root, Tail(files), ents, rels)
          ELSE IF p.parse # "ok" THEN [raised |-> p.parse, entities |-> <<>>, relations |-> <<>>]
          ELSE ScanFiles(root, Tail(files), ents \o FileEntities(p), rels \o FileRelations(p))

\* build_index(root) on a tree holding `files`.
build_index(root, files) == ScanFiles(root, files, <<>>, <<>>)

\* Source trees ---------------------------------------------------------------
MaxFiles == 2

File(rel, text, nlines, parse, doc, body, imports) ==
  [rel |-> rel, text |-> text, nlines |-> nlines, parse |-> parse,
   tree |-> [doc |-> doc, body |-> body, imports |-> imports]]

\* The parameter lists of a definition: each group absent or present.
ArgShapes ==
  {Arguments(po, ar, va, kw, kwa) :
     po \in {<<>>, << <<"a">> >>}, ar \in {<<>>, << <<"b">> >>},
     va \in {<<>>, <<"c">>}, kw \in {<<>>, << <<"d">> >>}, kwa \in {<<>>, <<"e">>}}

selfArgs == Arguments(<<>>, << <<"s">> >>, <<>>, <<>>, <<>>)

\* p/m.py: class Fn with method f, a nested class and an async method, an
\* assignment, and function fn.  `args` is the parameter list of the method
\* (place = "method") or of the function (place = "function").
ModuleFile(args, place) ==
  File(<<"p", "/", "m", ".", "p", "y">>, "text m", 9, "ok", "doc m",
       << Node("ClassDef", <<"F", "n">>, 2, 6, NoArguments,
               << Node("FunctionDef", <<"f">>, 3, 3,
                       IF place = "method" THEN args ELSE selfArgs, <<>>, "doc f"),
                  Node("ClassDef", <<"D">>, 4, 5, NoArguments,
                       << Node("FunctionDef", <<"d">>, 5, 5, selfArgs, <<>>, "") >>, ""),
                  Node("AsyncFunctionDef", <<"a", "d">>, 6, 6, selfArgs, <<>>, "") >>,
               "doc Fn"),
          Node("Assign", <<>>, 7, 7, NoArguments, <<>>, ""),
          Node("FunctionDef", <<"f", "n">>, 8, 9,
               IF place = "function" THEN args ELSE NoArguments, <<>>, "") >>,
       <<>>)

\* q.py: import a, p.m / import a / from . import x / from p import m, and
\* one async function.
ImportingFile ==
  File(<<"q", ".", "p", "y">>, "text q", 6, "ok", "",
       << Node("Import", <<>>, 1, 1, NoArguments, <<>>, ""),
          Node("AsyncFunctionDef", <<"t">>, 5, 6, NoArguments, <<>>, "") >>,
       << [type |-> "Import", names |-> << <<"a">>, <<"p", ".", "m">> >>, module |-> <<>>],
          [type |-> "Import", names |-> << <<"a">> >>, module |-> <<>>],
          [type |-> "ImportFrom", names |-> << <<"x">> >>, module |-> <<>>],
          [type |-> "ImportFrom", names |-> << <<"m">> >>, module |-> <<"p">>] >>)

\* What ast.parse raises on text it cannot parse: SyntaxError on malformed
\* text, RecursionError or MemoryError on text nested too deeply for the
\* parser (a sum of 100000 terms, a run of 200000 unary minus signs).
ParseFailures == {"SyntaxError", "RecursionError", "MemoryError"}

\* p/bad.py: a file ast.parse does not parse.
BadFile(failure) ==
  File(<<"p", "/", "b", "a", "d", ".", "p", "y">>, "text bad", 1, failure, "", <<>>, <<>>)

\* venv/x.py, below a skipped directory.
VenvFile ==
  File(<<"v", "e", "n", "v", "/", "x", ".", "p", "y">>, "text x", 1, "ok", "",
       << Node("FunctionDef", <<"x">>, 1, 1, NoArguments, <<>>, "") >>, <<>>)

\* p/n.txt: not a Python file.
TextFile == File(<<"p", "/", "n", ".", "t", "x", "t">>, "text n", 1, "ok", "", <<>>, <<>>)

FilePool ==
  {ModuleFile(args, place) : args \in ArgShapes, place \in {"method", "function"}}
    \cup {BadFile(failure) : failure \in ParseFailures}
    \cup {ImportingFile, VenvFile, TextFile}

\* The trees: up to MaxFiles files with distinct paths, in any listing order.
SourceTrees ==
  UNION {{t \in [1..n -> FilePool] : \A i, j \in 1..n : i # j => t[i].rel # t[j].rel} :
           n \in 0..MaxFiles}

\* Resolved roots: /r and /build/r.
IndexRoots == { << <<"r">> >>, << <<"b", "u", "i", "l", "d">>, <<"r">> >> }

\* One call of build_index.
BuildIndex ==
  /\ out = NoOut
  /\ \E root \in IndexRoots, files \in SourceTrees :
       LET r == build_index(root, files)
       IN out' = [op |-> "build_index", root |-> root, files |-> files, raised |-> r.raised,
                  entities |-> r.entities, relations |-> r.relations]
  /\ UNCHANGED <<entities, relations, fts, now, txn, last, ingested, nIngest, nWrite>>

(***************************************************************************)
(* Summarization batch: get_entities_needing_summary (db/sqlite.py),       *)
(* summarize_entity_routed (core/summarize_router.py) and run_summarize    *)
(* (core/summarize.py)                                                     *)
(***************************************************************************)
\* kinds or ["module", "class", "function", "method"]
AllKinds == <<"module", "class", "function", "method">>
KindsOrAll(kinds) == IF kinds = NoneKinds \/ kinds = <<>> THEN AllKinds ELSE kinds

\* Faulty variant: an entity with a recorded summary_error is left out.
NeedsSummaryUnlessFailed(row) == row.summary \in {NullText, <<>>} /\ row.summary_error = NullText

\* WHERE (summary IS NULL OR summary = '')
NeedsSummary(row) == row.summary \in {NullText, <<>>}

\* ORDER BY kind, fqname
KindNameLess(a, b) ==
  \/ KindOrd(a.kind) < KindOrd(b.kind)
  \/ a.kind = b.kind /\ StrLess(a.fqname, b.fqname)

\* The columns of the SELECT.
NeedRow(row) ==
  [id |-> row.id, kind |-> row.kind, fqname |-> row.fqname, file |-> row.file,
   start_line |-> row.start_line, end_line |-> row.end_line, signature |-> row.signature,
   docstring |-> row.docstring, code_hash |-> row.code_hash, summary |-> row.summary,
   summary_hash |-> row.summary_hash, summary_error |-> row.summary_error]

get_entities_needing_summary(ents, kinds, limit) ==
  LET need == {NeedRow(ents[i]) : i \in {j \in 1..Len(ents) :
                  NeedsSummary(ents[j]) /\ ents[j].kind \in Range(KindsOrAll(kinds))}}
  IN SqlLimit(SortSet(need, KindNameLess), limit)

NeedKinds == {NoneKinds, <<>>, <<"function", "class">>, <<"module", "module">>}

\* One call of get_entities_needing_summary.
NeedingSummary ==
  /\ ~txn.active /\ out = NoOut
  /\ \E kinds \in NeedKinds, limit \in 0..MaxLimit :
       out' = [op |-> "needing_summary", kinds |-> kinds, limit |-> limit,
               rows |-> get_entities_needing_summary(entities, kinds, limit)]
  /\ UNCHANGED <<entities, relations, fts, now, txn, last, ingested, nIngest, nWrite>>

\* What a summarizer backend does with one entity: it raises, with the text
\* of the exception, or returns summary, was_truncated, approx_tokens, coverage.
BackendRaises(message) ==
  [raised |-> "RuntimeError", message |-> message, summary |-> <<>>, was_truncated |-> FALSE,
   approx_tokens |-> 0, coverage |-> "", backend |-> ""]
BackendReturns(summary, was_truncated, coverage) ==
  [raised |-> "none", message |-> <<>>, summary |-> summary, was_truncated |-> was_truncated,
   approx_tokens |-> 7, coverage |-> coverage, backend |-> ""]

\* res["backend"] = ...
WithBackend(res, backend) ==
  IF res.raised # "none" THEN res ELSE [res EXCEPT !.backend = backend]

\* (mode or "auto").lower().strip()
NormalizeMode(mode) ==
  CASE mode \in {NULL, ""} -> "auto"
    [] mode = " Codex" -> "codex"
    [] OTHER -> mode

invalidMode == <<"m">>

\* summarize_entity_routed, given what the two backends do when called.
summarize_entity_routed(mode, ollama, codex) ==
  LET m == NormalizeMode(mode)
  IN IF m \notin {"auto", "ollama", "codex"}
       THEN [BackendRaises(invalidMode) EXCEPT !.raised = "ValueError"]
     ELSE IF m = "codex" THEN WithBackend(codex, "codex")
     ELSE IF m = "ollama" THEN WithBackend(ollama, "ollam")
     ELSE IF ollama.raised # "none" THEN ollama
     ELSE IF ollama.was_truncated THEN WithBackend(codex, "codex")
     ELSE WithBackend(ollama, "ollam")

\* str(ex) of the exceptions run_summarize raises itself or gets from
\* write_summary_cur.
emptySummary == <<"e">>
ErrorMessage(raised) ==
  CASE raised = "ValueError" -> <<"b">>
    [] raised = "IntegrityError" -> <<"c">>
    [] OTHER -> <<"r">>

\* The try block of run_summarize for entity e on the connection's rows:
\* the failure it catches ("none" without one), the message it records, and
\* the rows the connection holds when `finally: con.commit()` runs.
SummarizeAndWrite(ents, e, result, t) ==
  LET failed(kind, message) ==
        [failure |-> kind, message |-> message,
         entities |-> WriteSummaryErrorCur(ents, e.id, message, t)]
  IN IF result.raised # "none" THEN failed("backend", result.message)
     ELSE IF Strip(result.summary) = <<>> THEN failed("empty", emptySummary)
     ELSE LET w == WriteSummaryCur(ents, e.id, result.summary, e.code_hash,
                                   result.was_truncated, result.approx_tokens,
                                   result.coverage, result.backend, t)
          IN IF w.raised # "none" THEN failed("write", ErrorMessage(w.raised))
             ELSE [failure |-> "none", message |-> <<>>, entities |-> w.entities]

\* Inputs of a batch ----------------------------------------------------------
\* A message one character longer than the stored error may be.
LongMessage == [i \in 1..(MaxErrLen + 1) |-> "x"]

OllamaOutcomes ==
  { BackendRaises(<<"n", "o">>), BackendRaises(LongMessage),
    BackendReturns(<<"o", "k">>, FALSE, "full"),
    BackendReturns(<<"o", "k">>, TRUE, "partial"),
    BackendReturns(<<" ">>, FALSE, "unclear") }

CodexOutcomes ==
  { BackendRaises(<<"n", "o">>), BackendReturns(<<"a", "d">>, FALSE, "unclear") }

SummarizerModes == {"auto", "ollama", "codex", " Codex"}

\* A second unsummarized entity of a.py, and the indexes that carry it.
E7 == [kind |-> "function", fqname |-> <<"p", ".", "a", "d">>, file |-> "a.py",
       start_line |-> 5, end_line |-> 6, signature |-> <<"a", "d">>, docstring |-> NullText,
       summary |-> <<>>, code_hash |-> "h7"]
BatchIndexes ==
  { [entities |-> <<E7, E2>>, relations |-> <<R1>>],
    [entities |-> <<E4, E7>>, relations |-> <<>>] }

\* run_summarize up to the loop: the batch is read once, then the writing
\* connection is opened.  Nothing to summarize returns 0.
RunSummarize ==
  /\ ~txn.active /\ out = NoOut /\ nWrite < MaxWrites
  /\ \E limit \in 0..MaxLimit, mode \in SummarizerModes, root \in SourceRoots :
       LET todo == get_entities_needing_summary(entities, AllKinds, limit)
       IN IF todo = <<>>
            THEN /\ out' = [op |-> "run_summarize", raised |-> "none", n |-> 0]
                 /\ txn' = txn
            ELSE /\ txn' = [active |-> TRUE, pc |-> "summarize", todo |-> todo, pos |-> 1,
                            n |-> 0, mode |-> mode, root |-> root]
                 /\ out' = out
  /\ nWrite' = nWrite + 1
  /\ UNCHANGED <<entities, relations, fts, now, last, ingested, nIngest>>

\* One pass of the loop: the snippet is read (a missing snippet skips the
\* entity, an exception of get_snippet leaves run_summarize), the summary is
\* made and written or the failure recorded, and the connection commits.
RunEntity ==
  /\ txn.active /\ txn.pc = "summarize" /\ txn.pos <= Len(txn.todo)
  /\ LET e == txn.todo[txn.pos]
     IN \E snip \in get_snippet(entities, e.fqname, txn.root), ollama \in OllamaOutcomes,
           codex \in CodexOutcomes, t \in Times :
          IF snip.result \in {"error_not_found", "error_config"}
            THEN /\ txn' = [txn EXCEPT !.pos = txn.pos + 1]
                 /\ UNCHANGED <<entities, now, last, out>>
          ELSE IF snip.result # "snippet"
            THEN /\ txn' = NoTxn
                 /\ out' = [op |-> "run_summarize", raised |-> snip.result, n |-> txn.n]
                 /\ UNCHANGED <<entities, now, last>>
          ELSE LET result == summarize_entity_routed(txn.mode, ollama, codex)
                   r == SummarizeAndWrite(entities, e, result, t)
               IN /\ entities' = r.entities
                  /\ now' = t
                  /\ last' = [op |-> "run_entity", id |-> e.id, pos |-> txn.pos,
                              failure |-> r.failure, message |-> r.message,
                              result |-> result, preEntities |-> entities]
                  /\ txn' = [txn EXCEPT !.pos = txn.pos + 1, !.n = txn.n + 1]
                  /\ out' = out
  /\ UNCHANGED <<relations, fts, ingested, nIngest, nWrite>>

\* KeyboardInterrupt during the loop: the connection commits (nothing is
\* pending) and run_summarize returns the count so far.
RunInterrupt ==
  /\ txn.active /\ txn.pc = "summarize" /\ txn.pos <= Len(txn.todo)
  /\ txn' = NoTxn
  /\ out' = [op |-> "run_summarize", raised |-> "KeyboardInterrupt", n |-> txn.n]
  /\ UNCHANGED <<entities, relations, fts, now, last, ingested, nIngest, nWrite>>

\* The loop is over: run_summarize returns the count.
RunDone ==
  /\ txn.active /\ txn.pc = "summarize" /\ txn.pos > Len(txn.todo)
  /\ txn' = NoTxn
  /\ out' = [op |-> "run_summarize", raised |-> "none", n |-> txn.n]
  /\ UNCHANGED <<entities, relations, fts, now, last, ingested, nIngest, nWrite>>

(***************************************************************************)
(* Specifications                                                          *)
(***************************************************************************)
Init ==
  /\ entities = <<>> /\ relations = <<>> /\ fts = <<>>
  /\ now = 0
  /\ txn = NoTxn /\ last = NoLast /\ out = NoOut
  /\ ingested = {}
  /\ nIngest = 0 /\ nWrite = 0

\* Every operation, one call at a time.
Next ==
  \/ Ingest
  \/ WriteSummary
  \/ WriteSummaryError
  \/ LookupSymbol
  \/ BestMatchEntity
  \/ Search
  \/ Return

Spec == Init /\ [][Next]_vars

\* The writers of the store.
NextStore ==
  \/ Ingest
  \/ WriteSummary
  \/ WriteSummaryError

SpecStore == Init /\ [][NextStore]_vars

\* Retrieval over the stores that ingest builds.
NextRetrieve ==
  \/ Ingest
  \/ LookupSymbol
  \/ BestMatchEntity
  \/ Search
  \/ Return

SpecRetrieve == Init /\ [][NextRetrieve]_vars

\* One writer running ingest_index statement by statement, with concurrent readers.
NextTxn ==
  \/ TxnBegin
  \/ TxnInsertRelations
  \/ TxnUpsert
  \/ TxnRollback
  \/ TxnRebuild
  \/ TxnCommit
  \/ ConcurrentLookupSymbol
  \/ ConcurrentBestMatchEntity
  \/ ConcurrentSearch
  \/ Return

SpecTxn == Init /\ [][NextTxn]_vars

\* A database that two ingests have built, with no call in progress.
InitIngested ==
  \E idx1 \in Indexes, idx2 \in Indexes :
    LET r1 == IngestResult(<<>>, <<>>, <<>>, idx1, 0)
        r2 == IngestResult(r1.entities, r1.relations, r1.fts, idx2, 0)
    IN /\ entities = r2.entities /\ relations = r2.relations /\ fts = r2.fts
       /\ now = 0
       /\ txn = NoTxn /\ out = NoOut
       /\ last = [op |-> "ingest", ok |-> r2.ok, idx |-> idx2,
                  preEntities |-> r1.entities, preRelations |-> r1.relations,
                  preFts |-> r1.fts, again |-> r1.ok /\ r2.ok /\ idx1 = idx2]
       /\ ingested = (IF r1.ok THEN IndexKeys(idx1) ELSE {})
                        \cup (IF r2.ok THEN IndexKeys(idx2) ELSE {})
       /\ nIngest = MaxIngests /\ nWrite = 0

\* Recall evaluation over the stores that ingest builds.
NextEval ==
  \/ EvaluateRecall
  \/ Return

SpecEval == InitIngested /\ [][NextEval]_vars

\* A store large enough for candidate_limit to cut the matches of one
\* query: module fn beside functions named fn in two-letter modules.
ModuleLetters ==
  <<"a", "b", "c", "d", "e", "f", "i", "m", "n", "o", "p", "r", "s", "t", "x", "z">>
NamedFn(k) ==
  [kind |-> "function",
   fqname |-> <<ModuleLetters[((k - 1) \div Len(ModuleLetters)) + 1],
                ModuleLetters[((k - 1) % Len(ModuleLetters)) + 1]>> \o <<".">> \o fn,
   file |-> "a.py", start_line |-> 1, end_line |-> 2,
   signature |-> <<"f", "n", "(", "x", ")">>, docstring |-> <<>>,
   summary |-> <<>>, code_hash |-> "h1"]
ModuleFn ==
  [kind |-> "module", fqname |-> fn, file |-> "a.py", start_line |-> 1, end_line |-> 2,
   signature |-> <<>>, docstring |-> <<"a", "d">>, summary |-> <<>>, code_hash |-> "h2"]
\* An index of n entities with module fn at position pos.
PoolIndex(n, pos) ==
  [entities |-> [i \in 1..n |-> IF i = pos THEN ModuleFn
                                ELSE NamedFn(IF i < pos THEN i ELSE i - 1)],
   relations |-> <<>>]
PoolSizes == candidate_limit(1)..(candidate_limit(1) + MaxExtra)

\* A database built by one ingest of such an index, with no call in progress.
InitPool ==
  \E n \in PoolSizes : \E pos \in {1, n} :
    LET idx == PoolIndex(n, pos)
        r == IngestResult(<<>>, <<>>, <<>>, idx, 0)
    IN /\ entities = r.entities /\ relations = r.relations /\ fts = r.fts
       /\ now = 0
       /\ txn = NoTxn /\ out = NoOut
       /\ last = [op |-> "ingest", ok |-> r.ok, idx |-> idx,
                  preEntities |-> <<>>, preRelations |-> <<>>,
                  preFts |-> <<>>, again |-> FALSE]
       /\ ingested = IndexKeys(idx)
       /\ nIngest = MaxIngests /\ nWrite = 0

\* search over a store with more matches than one candidate pool holds.
NextPool ==
  \/ Search
  \/ Return

SpecPool == InitPool /\ [][NextPool]_vars

\* Navigation calls over a scanned tree.
NextNav ==
  \/ ClassMethods
  \/ ModuleNeighbors
  \/ GetSnippet
  \/ Return

SpecNav == InitNav /\ [][NextNav]_vars

\* Query normalisation; the store plays no part.
NextResolve ==
  \/ ResolveQuery
  \/ Return

SpecResolve == Init /\ [][NextResolve]_vars

\* The indexer alone.
NextIndex ==
  \/ BuildIndex
  \/ Return

SpecIndex == Init /\ [][NextIndex]_vars

\* Summarization batches over the stores that ingest builds.
NextSummarize ==
  \/ NeedingSummary
  \/ RunSummarize
  \/ RunEntity
  \/ RunInterrupt
  \/ RunDone
  \/ Return

\* The stores two ingests build, the second one of an index with entities
\* that await their summary.
InitSummarize ==
  \E idx1 \in Indexes, idx2 \in Indexes \cup BatchIndexes :
    LET r1 == IngestResult(<<>>, <<>>, <<>>, idx1, 0)
        r2 == IngestResult(r1.entities, r1.relations, r1.fts, idx2, 0)
    IN /\ entities = r2.entities /\ relations = r2.relations /\ fts = r2.fts
       /\ now = 0
       /\ txn = NoTxn /\ out = NoOut
       /\ last = [op |-> "ingest", ok |-> r2.ok, idx |-> idx2,
                  preEntities |-> r1.entities, preRelations |-> r1.relations,
                  preFts |-> r1.fts, again |-> r1.ok /\ r2.ok /\ idx1 = idx2]
       /\ ingested = (IF r1.ok THEN IndexKeys(idx1) ELSE {})
                        \cup (IF r2.ok THEN IndexKeys(idx2) ELSE {})
       /\ nIngest = MaxIngests /\ nWrite = 0

SpecSummarize == InitSummarize /\ [][NextSummarize]_vars

(***************************************************************************)
(* Properties                                                              *)
(***************************************************************************)
RowIds(rows) == [i \in 1..Len(rows) |-> rows[i].row.id]
Min(S) == CHOOSE x \in S : \A y \in S : x <= y

\* The kinds an allow-list names, blank entries aside.
Allowed(kinds) == IF kinds = NoneKinds THEN {} ELSE {k \in Range(kinds) : ~IsBlank(k)}

\* C1: the list lookup_symbol returns contains each stored entity at most once,
\* and an entity that satisfies several tier conditions appears only with the
\* lowest of the tier numbers it qualifies for.
C1_EachEntityOnceAtBestTier ==
  out.op = "lookup_symbol" =>
    LET m == out.matches
        all == LookupUnion(entities, out.name, NormalizeKinds(out.kinds))
    IN /\ \A i, j \in 1..Len(m) : m[i].row.id = m[j].row.id => i = j
       /\ \A i \in 1..Len(m) :
            m[i].rank = Min({x.rank : x \in {y \in all : y.row.id = m[i].row.id}})

C3_LiteralTierConditions ==
  LET rows == IF out.op = "lookup_symbol" THEN out.matches
              ELSE IF out.op = "best_match_entity" THEN out.rows ELSE <<>>
  IN \A i \in 1..Len(rows) :
       /\ Contains(rows[i].row.fqname, out.name)
       /\ rows[i].rank = 1 => EndsWith(rows[i].row.fqname, <<".">> \o out.name)
       /\ rows[i].rank = 0 => rows[i].row.fqname = out.name

\* The tier of an fqname for a query as the three-tier policy defines it
\* (3: no tier).
LiteralTier(fqname, name) ==
  IF fqname = name THEN 0
  ELSE IF EndsWith(fqname, <<".">> \o name) THEN 1
  ELSE IF Contains(fqname, name) THEN 2
  ELSE 3

\* C4: best_match_entity returns none iff no entity matches any tier under the
\* kind filter, and otherwise the one entity that is least under (best tier,
\* kind preference class < module < function < method, fqname).
C4_BestMatchIsLeast ==
  out.op = "best_match_entity" =>
    LET cand == {i \in 1..Len(entities) :
                   /\ LiteralTier(entities[i].fqname, out.name) < 3
                   /\ (Allowed(out.kinds) = {} \/ entities[i].kind \in Allowed(out.kinds))}
        Before(i, j) ==
          LET ti == LiteralTier(entities[i].fqname, out.name)
              tj == LiteralTier(entities[j].fqname, out.name)
              pi == KindPreference(entities[i].kind)
              pj == KindPreference(entities[j].kind)
          IN \/ ti < tj
             \/ ti = tj /\ pi < pj
             \/ ti = tj /\ pi = pj /\ StrLess(entities[i].fqname, entities[j].fqname)
    IN /\ out.rows = <<>> <=> cand = {}
       /\ out.rows # <<>> =>
            /\ Len(out.rows) = 1
            /\ out.rows[1].row.id \in {entities[i].id : i \in cand}
            /\ \A i \in cand : entities[i].id # out.rows[1].row.id =>
                 \E w \in cand : entities[w].id = out.rows[1].row.id /\ Before(w, i)

\* The boost the ranking gives an fqname against the (trimmed) raw query.
ClaimedBoost(fqname, query) ==
  LET f == LowerStr(fqname)
      q == LowerStr(Strip(query))
  IN IF f = q THEN 1000
     ELSE IF LastSegment(f) = q THEN 600
     ELSE IF Contains(f, q) THEN 250
     ELSE 0

\* C5: the list search returns is sorted by (boost descending, text-relevance
\* score ascending, kind ascending, fqname ascending), so an entity whose last
\* segment equals the query comes before one that merely contains it.
C5_SearchOrder ==
  (out.op = "search" /\ out.raised = "none") =>
    LET r == out.results
        B(i) == ClaimedBoost(r[i].row.fqname, out.query)
    IN /\ \A i, j \in 1..Len(r) : i < j =>
            \/ B(i) > B(j)
            \/ B(i) = B(j) /\ r[i].fts_score < r[j].fts_score
            \/ B(i) = B(j) /\ r[i].fts_score = r[j].fts_score
                 /\ KindOrd(r[i].row.kind) < KindOrd(r[j].row.kind)
            \/ B(i) = B(j) /\ r[i].fts_score = r[j].fts_score
                 /\ r[i].row.kind = r[j].row.kind
                 /\ StrLess(r[i].row.fqname, r[j].row.fqname)
       /\ \A i, j \in 1..Len(r) :
            (/\ LastSegment(LowerStr(r[i].row.fqname)) = LowerStr(out.query)
             /\ LastSegment(LowerStr(r[j].row.fqname)) # LowerStr(out.query)
             /\ Contains(LowerStr(r[j].row.fqname), LowerStr(out.query))) => i < j

\* A search returned a last-segment match ahead of a better-scored entity that
\* merely contains the query.
C5_Witness ==
  /\ out.op = "search" /\ out.raised = "none" /\ Len(out.results) = 2
  /\ ClaimedBoost(out.results[1].row.fqname, out.query) = 600
  /\ ClaimedBoost(out.results[2].row.fqname, out.query) = 250
  /\ out.results[2].fts_score < out.results[1].fts_score

\* The rows a retrieval call returned.
Returned ==
  IF out.op = "lookup_symbol" THEN out.matches
  ELSE IF out.op = "best_match_entity" THEN out.rows
  ELSE IF out.op = "search" THEN out.results
  ELSE <<>>

\* C6: with a non-empty kinds allow-list, every entity lookup_symbol,
\* best_match_entity or search returns has a kind of the list, in every tier and
\* on the literal-phrase retry of search; a filter that excludes every text match
\* gives an empty list and no error.
C6_KindFilter ==
  (out.op # "none" /\ Allowed(out.kinds) # {}) =>
    /\ \A i \in 1..Len(Returned) : Returned[i].row.kind \in Allowed(out.kinds)
    /\ (/\ out.op = "search"
        /\ FtsParse(fts_phrase(Strip(out.query))).status = "ok"
        /\ FtsParse(normalize_fts_query(out.query)).status # "unterminated"
        /\ \A i \in 1..Len(entities) : entities[i].kind \notin Allowed(out.kinds))
       => (out.raised = "none" /\ out.results = <<>>)

\* A filtered search answered on its retry, leaving out a text match of another kind.
C6_Witness ==
  /\ out.op = "search" /\ out.raised = "none" /\ out.runs = 2
  /\ Allowed(out.kinds) # {} /\ out.results # <<>>
  /\ \E i \in 1..Len(entities) :
       /\ entities[i].kind \notin Allowed(out.kinds)
       /\ FtsMatch(FtsDoc(entities[i]), FtsParse(fts_phrase(Strip(out.query))).phrases)

\* C7: after any sequence of ingests the store holds exactly one row per
\* (kind, fqname), and the stored keys are the union of the keys of every index
\* ingested so far.
C7_OneRowPerKeyNothingRemoved ==
  /\ \A i, j \in 1..Len(entities) : KeyOf(entities[i]) = KeyOf(entities[j]) => i = j
  /\ {KeyOf(entities[i]) : i \in 1..Len(entities)} = ingested

\* An index naming one key twice was ingested into a store that keeps a key the
\* index does not name.
C7_Witness ==
  /\ last.op = "ingest" /\ last.ok
  /\ \E i, j \in 1..Len(last.idx.entities) :
       i # j /\ KeyOf(last.idx.entities[i]) = KeyOf(last.idx.entities[j])
  /\ \E i \in 1..Len(entities) : KeyOf(entities[i]) \notin IndexKeys(last.idx)

\* The last entry of an index for a key: the one whose values the row ends with.
LastEntry(idx, key) ==
  idx.entities[CHOOSE i \in 1..Len(idx.entities) :
                 /\ KeyOf(idx.entities[i]) = key
                 /\ \A j \in 1..Len(idx.entities) : KeyOf(idx.entities[j]) = key => j <= i]

SummaryFields(row) ==
  <<row.summary, row.summary_hash, row.code_truncated, row.summary_prompt_tokens,
    row.summary_coverage, row.summary_backend, row.summary_error>>

\* C8: re-ingesting an entity whose (kind, fqname) is stored overwrites file,
\* span, signature, docstring, code_hash and updated_at and leaves the row id and
\* every summary field as they were.
C8_UpsertKeepsSummary ==
  (last.op = "ingest" /\ last.ok) =>
    \A i \in 1..Len(last.preEntities) :
      LET old == last.preEntities[i]
          new == entities[i]
      IN /\ new.id = old.id /\ KeyOf(new) = KeyOf(old)
         /\ SummaryFields(new) = SummaryFields(old)
         /\ KeyOf(old) \in IndexKeys(last.idx) =>
              LET e == LastEntry(last.idx, KeyOf(old))
              IN /\ new.file = e.file
                 /\ new.start_line = e.start_line /\ new.end_line = e.end_line
                 /\ new.signature = e.signature /\ new.docstring = e.docstring
                 /\ new.code_hash = e.code_hash
                 /\ new.updated_at = now

\* A summarized row was re-ingested from an entry with another file and summary.
C8_Witness ==
  /\ last.op = "ingest" /\ last.ok
  /\ \E i \in 1..Len(last.preEntities) :
       /\ last.preEntities[i].summary_backend = "codex"
       /\ KeyOf(last.preEntities[i]) \in IndexKeys(last.idx)
       /\ LastEntry(last.idx, KeyOf(last.preEntities[i])).summary # last.preEntities[i].summary
       /\ entities[i].file # last.preEntities[i].file
       /\ entities[i].updated_at # last.preEntities[i].updated_at

WithoutUpdatedAt(ents) == [i \in 1..Len(ents) |-> [ents[i] EXCEPT !.updated_at = 0]]

\* C9: ingesting the same index twice in a row leaves the entity rows (apart
\* from updated_at), the relations and the full-text index as one ingest left them.
C9_IngestIdempotent ==
  (last.op = "ingest" /\ last.again) =>
    /\ WithoutUpdatedAt(entities) = WithoutUpdatedAt(last.preEntities)
    /\ relations = last.preRelations
    /\ fts = last.preFts

\* An index with entities and relations was ingested twice in a row.
C9_Witness ==
  /\ last.op = "ingest" /\ last.again
  /\ relations # <<>> /\ entities # <<>>

\* The result of the retrieval call `o` on the tables ents / docs.
ResultsOn(o, ents, docs) ==
  IF o.op = "lookup_symbol" THEN {lookup_symbol(ents, o.name, o.limit, o.kinds)}
  ELSE IF o.op = "best_match_entity" THEN {best_match_entity(ents, o.name, o.kinds)}
  ELSE LET r == search(ents, docs, o.query, o.limit, o.kinds, o.order)
       IN IF r.raised # "none" THEN {<<>>} ELSE r.results

\* C10: a retrieval call made while an ingest is in progress returns what it
\* would return on the complete state before that ingest or on the complete
\* state after it.
C10_ReadsSeeWholeIngests ==
  (out.op # "none" /\ out.during /\ txn.active /\ out.n = nIngest) =>
    LET post == IngestResult(entities, relations, fts, txn.idx, txn.t)
    IN Returned \in ResultsOn(out, entities, fts)
                      \cup ResultsOn(out, post.entities, post.fts)

\* A call returned rows while the open transaction held uncommitted entity
\* writes that would have changed its answer.
C10_Witness ==
  /\ out.op # "none" /\ out.during /\ txn.active /\ out.n = nIngest
  /\ txn.entities # entities
  /\ Returned # <<>>
  /\ Returned \notin ResultsOn(out, txn.entities, txn.fts)

\* The relevant fqnames of a judgment row as written in the file.
JudgedRelevant(raw) ==
  {Strip(raw.relevant[j].fqname) : j \in 1..Len(raw.relevant)} \ {<<>>}

\* The explicit kind a judgment row gives for fq; NULL when it gives none.
JudgedKind(raw, fq) ==
  LET given == {j \in 1..Len(raw.relevant) :
                  /\ raw.relevant[j].obj /\ Strip(raw.relevant[j].fqname) = fq
                  /\ ~IsBlank(raw.relevant[j].kind)}
  IN IF given = {} THEN NULL
     ELSE raw.relevant[CHOOSE j \in given : \A h \in given : h <= j].kind

\* The kinds under which fq is stored.
StoredKinds(fq) == {entities[i].kind : i \in {j \in 1..Len(entities) : entities[j].fqname = fq}}

\* fq may be eligible / may be excluded under the allow-list of the call.
MayBeEligible(raw, fq, kinds) ==
  \/ ~HasKinds(kinds)
  \/ JudgedKind(raw, fq) # NULL /\ JudgedKind(raw, fq) \in Range(kinds)
  \/ JudgedKind(raw, fq) = NULL /\ StoredKinds(fq) \cap Range(kinds) # {}
MayBeExcluded(raw, fq, kinds) ==
  /\ HasKinds(kinds)
  /\ \/ JudgedKind(raw, fq) # NULL /\ JudgedKind(raw, fq) \notin Range(kinds)
     \/ JudgedKind(raw, fq) = NULL /\ StoredKinds(fq) \ Range(kinds) # {}
     \/ JudgedKind(raw, fq) = NULL /\ StoredKinds(fq) = {}

\* The fqnames a detail entry lists as excluded, and the eligible ones.
ExcludedOf(d) ==
  {d.excluded_relevant_by_kinds[j].fqname : j \in 1..Len(d.excluded_relevant_by_kinds)}
EligibleOf(raw, d) == JudgedRelevant(raw) \ ExcludedOf(d)

\* The fqname sets the retriever's top-k may hold for the query of a row.
TopK(raw) ==
  LET r == Retrieved(entities, fts, Strip(raw.query), out.k, out.retriever, out.kinds,
                     out.order)
  IN {Range(Take(l, out.k)) : l \in r.lists}

Reported == out.op = "evaluate" /\ out.raised = "none"

\* C11: per query recall_at_k = |eligible /\ returned| / |eligible| (0 with no
\* eligible target) and hit_at_k = 1 iff that intersection is non-empty, returned
\* being the retriever's top-k; so 0 <= recall <= 1, hit = 1 iff recall > 0, and
\* matched_count <= min(k, eligible count).
C11_RecallAndHit ==
  Reported =>
    \A i \in 1..Len(out.details) :
      LET d == out.details[i]
          eligible == EligibleOf(out.qrels[i], d)
          rec == d.recall_at_k
      IN /\ \E returned \in TopK(out.qrels[i]) :
              LET both == eligible \cap returned
              IN /\ IF eligible = {} THEN rec.num = 0
                    ELSE rec.num * Cardinality(eligible) = Cardinality(both) * rec.den
                 /\ d.hit_at_k = (IF both # {} THEN 1 ELSE 0)
                 /\ d.matched_count = Cardinality(both)
         /\ rec.den > 0 /\ 0 <= rec.num /\ rec.num <= rec.den
         /\ d.hit_at_k \in {0, 1}
         /\ (d.hit_at_k = 1) <=> (rec.num > 0)
         /\ d.matched_count <= out.k
         /\ d.matched_count <= Cardinality(eligible)

\* Two targets are relevant and eligible, one of them is returned: recall 0.5, hit 1.
C11_Witness ==
  /\ Reported
  /\ \E i \in 1..Len(out.details) :
       /\ out.details[i].eligible_relevant_count = 2
       /\ out.details[i].matched_count = 1
       /\ out.details[i].recall_at_k.num * 2 = out.details[i].recall_at_k.den
       /\ out.details[i].hit_at_k = 1

IsDirectMember(fqname, class_fqname) ==
  /\ StartsWith(fqname, class_fqname \o <<".">>)
  /\ \A i \in (Len(class_fqname) + 2)..Len(fqname) : fqname[i] # "."

\* C13: every entity class_methods returns has kind 'method' and an fqname of
\* the form classFqname + '.' + name with no dot in name; methods of other
\* classes and of nested classes are never returned.
C13_DirectMethodsOnly ==
  out.op = "class_methods" =>
    \A i \in 1..Len(out.rows) :
      /\ out.rows[i].kind = "method"
      /\ IsDirectMember(out.rows[i].fqname, out.class_fqname)

\* The claimed score classes: preferred names, preferred prefixes, the rest.
NameClass(name) ==
  IF name \in prefer_exact THEN 1
  ELSE IF \E p \in prefer_prefix : StartsWith(name, p) THEN 2
  ELSE 3

\* The claimed order (name score, declaration line, name) of two direct methods.
DirectMethodLess(a, b, class_fqname) ==
  LET na == SubSeq(a.fqname, Len(class_fqname) + 2, Len(a.fqname))
      nb == SubSeq(b.fqname, Len(class_fqname) + 2, Len(b.fqname))
  IN \/ NameClass(na) < NameClass(nb)
     \/ NameClass(na) = NameClass(nb) /\ a.start_line < b.start_line
     \/ NameClass(na) = NameClass(nb) /\ a.start_line = b.start_line /\ StrLess(na, nb)

DirectMethods(class_fqname) ==
  {entities[i] : i \in {j \in 1..Len(entities) :
     entities[j].kind = "method" /\ IsDirectMember(entities[j].fqname, class_fqname)}}

\* C14: class_methods returns the first `limit` entries of the order (name
\* score, declaration line, name) over all direct methods of the class, and at
\* most `limit` entries.
C14_FirstLimitOfMethodOrder ==
  out.op = "class_methods" =>
    /\ Len(out.rows) <= out.limit
    /\ out.rows =
         Take(SortSet(DirectMethods(out.class_fqname),
                      LAMBDA a, b : DirectMethodLess(a, b, out.class_fqname)),
              out.limit)

\* The claimed distance: 0 when the ranges share a line, else the gap between
\* the nearest lines of the two ranges.
LineGap(row, start_line, end_line) ==
  Min({IF x < y THEN y - x ELSE x - y :
         x \in row.start_line..row.end_line, y \in start_line..end_line})

\* Row a may not come after row b in the claimed order of module_neighbors.
NeighborOrdered(a, b) ==
  LET ra == IF a.kind = "method" THEN 1 ELSE 0
      rb == IF b.kind = "method" THEN 1 ELSE 0
      da == LineGap(a, out.start_line, out.end_line)
      db == LineGap(b, out.start_line, out.end_line)
  IN \/ ra < rb
     \/ ra = rb /\ da < db
     \/ ra = rb /\ da = db /\ a.start_line < b.start_line
     \/ ra = rb /\ da = db /\ a.start_line = b.start_line /\ ~StrLess(b.fqname, a.fqname)

\* C15: module_neighbors returns only class/function/method entities of the
\* given file, never the entity whose id is exclude_id, ordered by (class or
\* function before method, distance, start line, fqname).
C15_NeighborsOrdered ==
  out.op = "module_neighbors" =>
    /\ \A i \in 1..Len(out.rows) :
         /\ out.rows[i].kind \in {"class", "function", "method"}
         /\ out.rows[i].file = out.file
         /\ out.rows[i].id # out.exclude_id
         /\ \E j \in 1..Len(entities) : entities[j] = out.rows[i]
    /\ \A i, j \in 1..Len(out.rows) : i < j => NeighborOrdered(out.rows[i], out.rows[j])

\* Ranges [1-11], [13-14], [16-17] in one file, the first excluded and its
\* range the reference: [13-14] is returned ahead of [16-17].
C15_Witness ==
  /\ out.op = "module_neighbors" /\ out.start_line = 1 /\ out.end_line = 11
  /\ \E x \in 1..Len(entities) :
       /\ entities[x].id = out.exclude_id
       /\ entities[x].file = out.file
       /\ entities[x].start_line = 1 /\ entities[x].end_line = 11
  /\ \E i, j \in 1..Len(out.rows) :
       /\ i < j
       /\ out.rows[i].start_line = 13 /\ out.rows[i].end_line = 14
       /\ out.rows[j].start_line = 16 /\ out.rows[j].end_line = 17

\* C18: get_snippet returns a not-found result whenever no entity has the
\* fqname, with or without a source root; a configuration error when the
\* entity exists and no source root is set; neither path reads a source file.
C18_SnippetErrors ==
  out.op = "get_snippet" =>
    LET exists == \E i \in 1..Len(entities) : entities[i].fqname = out.fqname
        rootSet == out.arc_root \notin {NULL, ""}
    IN /\ ~exists => out.result = "error_not_found" /\ out.reads = 0
       /\ (exists /\ ~rootSet) => out.result = "error_config" /\ out.reads = 0
       /\ out.result \in {"error_not_found", "error_config"} => out.reads = 0

\* An unknown fqname was asked for with no source root configured.
C18_Witness ==
  /\ out.op = "get_snippet" /\ out.arc_root = NULL
  /\ entities # <<>>
  /\ \A i \in 1..Len(entities) : entities[i].fqname # out.fqname
  /\ out.result = "error_not_found"

\* C16: the candidates of normalize_resolve_query hold no duplicate and no
\* empty string; normalized_query is the first candidate; an empty or
\* whitespace-only query gives no candidate and normalized_query ''; any other
\* query gives at least one candidate, the trimmed raw query among them.
C16_CandidateList ==
  out.op = "resolve" =>
    LET c == out.candidates
        trimmed == Strip(out.query)
    IN /\ \A i, j \in 1..Len(c) : c[i] = c[j] => i = j
       /\ \A i \in 1..Len(c) : c[i] # <<>> /\ Strip(c[i]) = c[i]
       /\ c # <<>> => out.normalized_query = c[1]
       /\ trimmed = <<>> => c = <<>> /\ out.normalized_query = <<>>
       /\ trimmed # <<>> => c # <<>> /\ \E i \in 1..Len(c) : c[i] = trimmed
       /\ out.raw_query = trimmed

\* A query that repeats a dotted token produced several candidates.
C16_Witness ==
  /\ out.op = "resolve" /\ out.form = "plain"
  /\ Len(out.candidates) >= 3
  /\ \E i, j \in 1..(Len(out.query) - 2) :
       i + 2 < j /\ SubSeq(out.query, i, i + 2) = SubSeq(out.query, j, j + 2)

\* The candidates the import list calls for: per plain-identifier name, in
\* import order, the bare name then module.name, each unless already listed.
RECURSIVE ImportCandidates(_, _, _)
ImportCandidates(mod, items, acc) ==
  IF items = <<>> THEN acc
  ELSE LET name == Head(items).name
           qualified == mod \o <<".">> \o name
           a1 == IF Head(items).ident /\ name \notin Range(acc) THEN Append(acc, name) ELSE acc
           a2 == IF Head(items).ident /\ qualified \notin Range(a1)
                   THEN Append(a1, qualified) ELSE a1
       IN ImportCandidates(mod, Tail(items), a2)

\* C17: for 'from <module> import <n1>, <n2>, ...' the candidates begin with,
\* for each plain-identifier name in import order, the bare name followed by
\* '<module>.<name>' (unless already present), ahead of every other
\* candidate; aliases and non-identifier names contribute no candidate.
C17_FromImportCandidates ==
  (out.op = "resolve" /\ out.form = "from") =>
    LET want == ImportCandidates(out.module, out.items, <<>>)
    IN /\ Len(want) <= Len(out.candidates)
       /\ SubSeq(out.candidates, 1, Len(want)) = want
       /\ \A i \in 1..Len(out.items) :
            /\ out.items[i].alias # <<>> =>
                 \A k \in 1..Len(out.candidates) : out.candidates[k] # out.items[i].alias
            /\ (~out.items[i].ident /\ ~Contains(out.items[i].name, <<".">>)) =>
                 \A k \in 1..Len(out.candidates) :
                    /\ out.candidates[k] # out.items[i].name
                    /\ out.candidates[k] # out.module \o <<".">> \o out.items[i].name

\* Two names were imported from a dotted module, the first under an alias,
\* next to a name that is no identifier.
C17_Witness ==
  /\ out.op = "resolve" /\ out.form = "from"
  /\ Len(out.module) > 1
  /\ Len(out.items) = 2
  /\ out.items[1].ident /\ out.items[1].alias # <<>>
  /\ ~out.items[2].ident
  /\ Len(out.candidates) > 2
  /\ out.candidates[1] = out.items[1].name

(***************************************************************************)
(* Indexer properties                                                      *)
(***************************************************************************)
\* The files of a tree that build_index reads and parses.
Scanned(root, files) == SelectSeq(files, LAMBDA f : MatchesPy(f) /\ ~InSkippedDir(root, f))

\* The files of a tree without those ast.parse fails on.
Parsable(files) == SelectSeq(files, LAMBDA f : f.parse = "ok")

\* C19: build_index never aborts because of a file that cannot be parsed:
\* whatever ast.parse does with the unparsable files of the tree, the call
\* returns, and it returns the entities and relations of the same tree with
\* those files absent (so they contribute nothing and the others are indexed
\* unchanged).
C19_UnparsableFilesSkipped ==
  out.op = "build_index" =>
    /\ out.raised = "none"
    /\ out.entities = build_index(out.root, Parsable(out.files)).entities
    /\ out.relations = build_index(out.root, Parsable(out.files)).relations

\* The function definitions a parsed file turns into entities, each with the
\* kind and fqname of its entity.
Definitions(file) ==
  LET mod_name == ModName(file.rel)
      body == file.tree.body
  IN UNION {
       IF IsFunctionDef(body[i])
         THEN {[kind |-> "function", fqname |-> Dotted(mod_name, body[i].name), node |-> body[i]]}
       ELSE IF IsClassDef(body[i])
         THEN {[kind |-> "method",
                fqname |-> Dotted(Dotted(mod_name, body[i].name), body[i].body[j].name),
                node |-> body[i].body[j]] :
                 j \in {k \in DOMAIN body[i].body : IsFunctionDef(body[i].body[k])}}
       ELSE {} : i \in DOMAIN body}

\* Every declared parameter of a definition, in the order of the claim.
DeclaredParameters(node) ==
  node.args.posonlyargs
    \o node.args.args
    \o (IF node.args.vararg # <<>> THEN << <<"*">> \o node.args.vararg >> ELSE <<>>)
    \o node.args.kwonlyargs
    \o (IF node.args.kwarg # <<>> THEN << <<"*", "*">> \o node.args.kwarg >> ELSE <<>>)

\* C20: the signature of every function or method entity is
\* name(p1, ..., pn) listing every declared parameter once: the positional
\* parameters in declaration order, "*" + the variadic-positional name, the
\* keyword-only parameters in order, "**" + the variadic-keyword name.
C20_SignatureListsEveryParameter ==
  (out.op = "build_index" /\ out.raised = "none") =>
    \A i \in DOMAIN out.files :
      LET file == out.files[i]
      IN (MatchesPy(file) /\ ~InSkippedDir(out.root, file) /\ file.parse = "ok") =>
           \A d \in Definitions(file) :
             \A k \in DOMAIN out.entities :
               (out.entities[k].kind = d.kind /\ out.entities[k].fqname = d.fqname
                  /\ out.entities[k].file = file.rel) =>
                 out.entities[k].signature =
                   d.node.name \o <<"(">> \o JoinComma(DeclaredParameters(d.node)) \o <<")">>

\* The module names the Import / ImportFrom nodes of a file name: every
\* name of an import statement, the module of a from-import that has one.
ImportedModules(file) ==
  UNION {IF file.tree.imports[i].type = "Import"
           THEN {file.tree.imports[i].names[k] : k \in DOMAIN file.tree.imports[i].names}
         ELSE IF file.tree.imports[i].module # <<>> THEN {file.tree.imports[i].module}
         ELSE {} : i \in DOMAIN file.tree.imports}

\* The positions of the imports relations a module is the source of.
ImportsFrom(rels, mod_name) ==
  {k \in DOMAIN rels : rels[k].rel = "imports" /\ rels[k].src = mod_name}

\* C21: for each parsed file build_index emits exactly one imports relation
\* per distinct imported module name, with the module name as destination:
\* the destinations are the imported module names and no destination occurs
\* twice for one file.
C21_OneImportPerModule ==
  (out.op = "build_index" /\ out.raised = "none") =>
    \A i \in DOMAIN out.files :
      LET file == out.files[i]
          from == ImportsFrom(out.relations, ModName(file.rel))
      IN (MatchesPy(file) /\ ~InSkippedDir(out.root, file) /\ file.parse = "ok") =>
           /\ {out.relations[k].dst : k \in from} = ImportedModules(file)
           /\ \A k, l \in from : out.relations[k].dst = out.relations[l].dst => k = l

\* The directory names the skip rule names.
NamedSkipDirs == SkipDirs \ { <<".">> }

\* A file has a path component below the root that the skip rule names.
BelowSkippedDir(file) ==
  \E i \in DOMAIN SplitOn(file.rel, "/") : SplitOn(file.rel, "/")[i] \in NamedSkipDirs

\* C30: build_index indexes every parsable .py file under the root except
\* those with a component below the root named as a build/VCS/cache
\* directory, whatever the directories above the root are called: the files
\* of the module entities are exactly those files.
C30_SkipOnlyBelowRoot ==
  (out.op = "build_index" /\ out.raised = "none") =>
    {out.entities[k].file : k \in {j \in DOMAIN out.entities : out.entities[j].kind = "module"}}
      = {out.files[i].rel : i \in {j \in DOMAIN out.files :
            /\ MatchesPy(out.files[j])
            /\ out.files[j].parse = "ok"
            /\ ~BelowSkippedDir(out.files[j])}}

\* C23: after any sequence of ingest, summary-write and summary-error
\* operations the full-text index holds, for every stored entity, a document
\* with the entity's current fqname, signature, docstring and summary (so a
\* term of the current summary finds the entity and a term of a replaced
\* summary does not).
C23_FtsReflectsEntities ==
  /\ Len(fts) = Len(entities)
  /\ \A i \in DOMAIN entities : fts[i] = FtsDoc(entities[i])

\* C25: ingest is all-or-nothing.  While its transaction is open the
\* committed tables do not change; when it ends after a failed relation or
\* entity write they are exactly as before the call; when it ends on success
\* the relations are the new set, the entities are the upserted rows and the
\* full-text index is rebuilt from them, all in the same step.
C25_IngestAllOrNothing ==
  [][ /\ txn'.active => (entities' = entities /\ relations' = relations /\ fts' = fts)
      /\ (txn.active /\ ~txn'.active) =>
           LET r == IngestResult(entities, relations, fts, txn.idx, txn.t)
           IN /\ last'.op = "ingest" /\ last'.ok = r.ok
              /\ entities' = r.entities /\ relations' = r.relations /\ fts' = r.fts
              /\ ~r.ok => (entities' = entities /\ relations' = relations /\ fts' = fts)
              /\ r.ok => (relations' = txn.idx.relations /\ fts' = RebuildFts(entities'))
    ]_vars

\* An ingest failed after it had deleted the stored relations and written
\* an entity inside its transaction, and the tables are as before the call.
C25_Witness ==
  /\ ~txn.active /\ last.op = "ingest" /\ ~last.ok
  /\ last.preRelations # <<>> /\ last.preEntities # <<>>
  /\ Len(last.idx.entities) > 1 /\ NotNullOk(last.idx.entities[1])
  /\ relations = last.preRelations /\ entities = last.preEntities /\ fts = last.preFts

\* C28: write_summary_cur either returns with exactly one row updated, that
\* row holding the given summary, hash, truncation flag, token count,
\* coverage and backend with summary_error cleared and every other row as it
\* was, or it raises; it raises whenever the id does not match exactly one
\* row, and a call that raises changes no row.
C28_WriteSummaryOneRowOrFatal ==
  last.op = "write_summary" =>
    LET pre == last.preEntities
        hit == RowsWithId(pre, last.id)
    IN /\ last.raised = "none" =>
            /\ Cardinality(hit) = 1
            /\ Len(entities) = Len(pre)
            /\ \A i \in DOMAIN pre :
                 IF i \in hit
                   THEN /\ entities[i].summary = last.summary
                        /\ entities[i].summary_hash = "hs"
                        /\ entities[i].code_truncated = 1
                        /\ entities[i].summary_prompt_tokens = 7
                        /\ entities[i].summary_coverage = "full"
                        /\ entities[i].summary_backend = last.backend
                        /\ entities[i].summary_error = NullText
                        /\ entities[i].id = pre[i].id /\ KeyOf(entities[i]) = KeyOf(pre[i])
                   ELSE entities[i] = pre[i]
       /\ Cardinality(hit) # 1 => last.raised # "none"
       /\ last.raised # "none" => entities = pre

\* A write succeeded on a row that held another summary.
C28_Witness ==
  /\ last.op = "write_summary" /\ last.raised = "none"
  /\ \E i \in DOMAIN last.preEntities :
       /\ last.preEntities[i].id = last.id
       /\ last.preEntities[i].summary \notin {last.summary, <<>>, NullText}
       /\ entities[i].summary = last.summary

(***************************************************************************)
(* Summarization properties                                                *)
(***************************************************************************)
\* The stored entities a call for `kinds` should return: summary unset or
\* empty, kind among the requested kinds (all four when none are given).
Wanted(kinds) ==
  {i \in DOMAIN entities :
     /\ entities[i].summary \in {NullText, <<>>}
     /\ \/ kinds \in {NoneKinds, <<>>}
        \/ entities[i].kind \in Range(kinds)}

\* Entity row a comes before entity row b in (kind, fqname) order.
Precedes(a, b) ==
  \/ KindOrd(a.kind) < KindOrd(b.kind)
  \/ KindOrd(a.kind) = KindOrd(b.kind) /\ StrLess(a.fqname, b.fqname)

\* C22: get_entities_needing_summary returns exactly the entities whose
\* summary is unset or empty and whose kind is requested, in ascending
\* (kind, fqname) order, truncated to limit: the rows are wanted entities
\* with their stored values, strictly ascending, as many as the limit allows,
\* and every wanted entity left out comes after every returned one.
C22_NeedingSummary ==
  out.op = "needing_summary" =>
    LET rows == out.rows
        want == Wanted(out.kinds)
        at(k) == CHOOSE i \in DOMAIN entities : entities[i].id = rows[k].id
    IN /\ \A k \in DOMAIN rows :
            /\ \E i \in want : entities[i].id = rows[k].id
            /\ rows[k].kind = entities[at(k)].kind
            /\ rows[k].fqname = entities[at(k)].fqname
            /\ rows[k].summary = entities[at(k)].summary
            /\ rows[k].summary_error = entities[at(k)].summary_error
            /\ rows[k].code_hash = entities[at(k)].code_hash
       /\ \A k \in 1..(Len(rows) - 1) : Precedes(rows[k], rows[k + 1])
       /\ Len(rows) = (IF Cardinality(want) < out.limit THEN Cardinality(want) ELSE out.limit)
       /\ \A i \in want :
            (\A k \in DOMAIN rows : rows[k].id # entities[i].id) =>
              \A k \in DOMAIN rows : Precedes(rows[k], entities[i])

\* A call returned an entity that has a recorded summary_error, left out a
\* summarized entity of a requested kind, and was cut short by its limit.
C22_Witness ==
  /\ out.op = "needing_summary"
  /\ \E k \in DOMAIN out.rows : out.rows[k].summary_error # NullText
  /\ \E i \in DOMAIN entities :
       /\ entities[i].summary \notin {NullText, <<>>}
       /\ out.kinds \in {NoneKinds, <<>>} \/ entities[i].kind \in Range(out.kinds)
  /\ Len(out.rows) < Cardinality(Wanted(out.kinds))

\* The position of the stored row with the given id.
RowOf(ents, id) == CHOOSE i \in DOMAIN ents : ents[i].id = id

\* C26: in run_summarize a failure while summarizing or writing one entity
\* (backend exception, empty summary, rejected write) is recorded in that
\* entity's summary_error, cut to 500 characters, with its summary text and
\* every other row unchanged; the record is committed and the batch goes on
\* to the next entity.  No step of the batch, and neither its end nor an
\* interrupt, changes the row of another entity.
C26_FailureRecordedBatchProceeds ==
  [][ (txn.active /\ txn.pc = "summarize") =>
        /\ last' # last =>
             LET id == txn.todo[txn.pos].id
                 i == RowOf(entities, id)
             IN /\ last'.op = "run_entity" /\ last'.id = id
                /\ Len(entities') = Len(entities)
                /\ \A j \in DOMAIN entities : j # i => entities'[j] = entities[j]
                /\ last'.failure # "none" =>
                     /\ entities'[i].summary_error = Take(last'.message, MaxErrLen)
                     /\ Len(entities'[i].summary_error) <= MaxErrLen
                     /\ entities'[i].summary_error # NullText
                     /\ entities'[i].summary = entities[i].summary
                     /\ txn'.active /\ txn'.todo = txn.todo /\ txn'.pos = txn.pos + 1
        /\ last' = last => entities' = entities
        /\ (last'.op = "run_entity" /\ last'.failure = "none") =>
             \/ last'.result.raised = "none" /\ Strip(last'.result.summary) # <<>>
             \/ last' = last
    ]_vars

\* A backend exception with a message of more than 500 characters was
\* recorded for the second entity of a batch whose first entity got its
\* summary, and the batch is still running.
C26_Witness ==
  /\ txn.active /\ txn.pc = "summarize" /\ txn.pos = 3
  /\ last.op = "run_entity" /\ last.failure = "backend" /\ Len(last.message) > MaxErrLen
  /\ Len(entities[RowOf(entities, last.id)].summary_error) = MaxErrLen
  /\ entities[RowOf(entities, txn.todo[1].id)].summary \notin {<<>>, NullText}

\* C27: every backend identifier summarize_entity_routed attaches to a
\* result is accepted by write_summary_cur and by the summary_backend
\* constraint: when the routed call returns a non-empty summary, the entity
\* holds that summary and that backend with summary_error cleared.
C27_RoutedBackendAccepted ==
  (last.op = "run_entity" /\ last.result.raised = "none"
     /\ Strip(last.result.summary) # <<>>) =>
    LET row == entities[RowOf(entities, last.id)]
    IN /\ last.failure = "none"
       /\ row.summary = last.result.summary
       /\ row.summary_backend = last.result.backend
       /\ row.summary_error = NullText

C24_PoolKeepsTopLimit ==
  (out.op = "search" /\ out.raised = "none" /\ out.limit >= 1) =>
    LET first == FtsParse(normalize_fts_query(out.query))
        used == IF out.runs = 1 THEN first ELSE FtsParse(fts_phrase(Strip(out.query)))
        all == SearchMatches(entities, fts, used.phrases, NormalizeKinds(out.kinds),
                             out.order)
    IN out.results = Rerank(all, out.query, out.limit)
====
